---- MODULE Spec2Model ----
(***************************************************************************)
(* ARES cognitive core: the MemoryStream (src/src/agents/memory.py), the   *)
(* draft/audit/refine protocol (matrix.py, genesis.py, meta_reviewer.py)   *)
(* and the fact-check gate of Researcher.discuss_with (researcher.py).     *)
(***************************************************************************)
EXTENDS Integers, Sequences, FiniteSets, TLC

\* ------------------------------------------------------------------ bounds
\* add_memory calls per run of the memory specification
MaxMem == 2
\* discuss_with calls per run of the gate specification
MaxRounds == 1
\* list and table sizes up to which load_from_db is called again
MaxListed == 3
\* items ingested per run of the ranking specification
MaxIngest == 3
\* collaborator failures (rating, embedding, cache write, store write)
\* injected into the add_memory calls of one run
MaxAddFaults == 4

\* ------------------------------------------------------------ input domains
\* the text the i-th add_memory call is handed: every call brings its own
DescriptionOf(i) == <<"memory", i>>
\* the simulation clock values a caller passes (main.py hands one
\* current_time to a whole batch, so equal times are the normal case)
Times == {1, 2}
\* texts the importance-rating call answers with; "" is LLM.generate's
\* failure value, "high" does not parse as a number
RatingTexts == {"8", "high"}
\* ratings and clock values of the ranking specification
RankRatings == {"2", "5", "8", "11"}
RankTimes == {1, 2, 3}
\* n / top_k values of the retrieval calls
Ns == 1 .. MaxMem
\* top_k values retrieve is called with
TopKs == {1, 2}
\* the clock value retrieve is called with
RetrieveTimes == {2}

VARIABLES
    redis,       \* MemoryStream.redis is not None (fixed at construction)
    db,          \* "none": MemoryStream.db is None; "demo": Database.demo_mode;
                 \* "pool": a connection pool exists
    memories,    \* MemoryStream.memories, the in-process list
    redisStore,  \* hashes written under memory:{agent}: in the vector cache
    dbRows,      \* rows of agent_memories for this agent
    nextOid,     \* identity of the next MemoryObject created
    addFaults,   \* failures injected into add_memory calls so far
    ret          \* what the last MemoryStream call did and returned

memVars == <<redis, db, memories, redisStore, dbRows, nextOid, addFaults, ret>>

\* one invocation of a self-correcting generation task
VARIABLES
    llmRedis,    \* LLM.redis is not None (fixed when the LLM is constructed)
    task,        \* "matrix": DrMatrix.extract_claims, "genesis":
                 \* DrGenesis.design_study, "meta": the draft/critique/rewrite
                 \* part of MetaReviewerAgent._write_special_issue
    pc,          \* the invocation's position
    draftRaw,    \* what the draft call's generate returned
    draft,       \* draft_json / draft_protocol / report_draft
    critique,    \* critique / review
    refined,     \* refined_json / the finalized protocol / the rewrite
    final,       \* the value the invocation returned (report for "meta")
    calls,       \* llm.generate calls made, per step
    finals,      \* how many times the final output was defined
    trail        \* the protocol states passed through

protoVars == <<llmRedis, task, pc, draftRaw, draft, critique, refined, final,
               calls, finals, trail>>

\* Researcher.discuss_with between two agents
VARIABLES
    gpc,                    \* position: "idle", or "checked" once the fact
                            \* check has been parsed
    rounds,                 \* discuss_with calls made; the clock of a call
    streams,                \* memory.memories of self and of other_agent
    agentMemories,          \* rows of agent_memories, per agent
    agentReports,           \* rows of agent_reports
    discussionsFile,        \* entries of living_discussions.json
    discussion_result,      \* locals of the running call
    verification_response,
    status,
    evidence_text,
    verdicts                \* final status of every finished fact check

gateVars == <<gpc, rounds, streams, agentMemories, agentReports,
              discussionsFile, discussion_result, verification_response,
              status, evidence_text, verdicts>>

\* worker threads calling one MemoryStream (main.py's ThreadPoolExecutor)
VARIABLES
    lock,        \* MemoryStream.lock: 0 when free, else the holding worker
    workers      \* per worker: the call it makes, its position, the record
                 \* it built, the list it returned

threadVars == <<lock, workers>>

\* the response cache of one LLM
VARIABLES
    llmCache,    \* the llm_cache:* entries: cache key -> stored response,
                 \* the empty text where there is none
    generated    \* the last generate call: its number, key, temperature,
                 \* outcome and returned text

cacheVars == <<llmCache, generated>>

\* the vector cache as shared by the streams of several agents
VARIABLES
    constructed, \* the agent names MemoryStreams were constructed with
    indexes,     \* the search indexes created: name and key prefix
    hashKeys     \* the keys add_memory wrote, with the writing agent

registryVars == <<constructed, indexes, hashKeys>>

\* MemoryStream constructions running _create_index against the shared cache
VARIABLES
    builders,    \* per construction: the agent name, the position, what the
                 \* existence check saw, whether a create was issued and how
                 \* the routine ended
    createCalls  \* create_index calls issued so far

indexVars == <<builders, createCalls>>

\* worker threads updating living_knowledge_graph.json
VARIABLES
    kg_file,     \* the entries of living_knowledge_graph.json, <<>> while
                 \* the file does not exist
    matrix_lock, \* Researcher._matrix_lock: 0 when free, else the holder
    updaters     \* per worker thread: the position, the paper's title, the
                 \* claims extracted, the list read from the file and the
                 \* entries the thread has appended

graphVars == <<kg_file, matrix_lock, updaters>>

auxVars == <<threadVars, cacheVars, registryVars, indexVars, graphVars>>

vars == <<memVars, protoVars, gateVars, auxVars>>

\* ------------------------------------------------------------ sequences
Take(s, n) == SubSeq(s, 1, IF n < Len(s) THEN n ELSE Len(s))

Range(s) == {s[i] : i \in 1 .. Len(s)}

\* ------------------------------------------------------------ MemoryObject
\* oid stands for the identity of the Python object (two records may agree
\* on every field); oid 0 marks an object rebuilt from a search result.
MemoryObject(oid, description, time, importance, embedding, accessed) ==
    [oid |-> oid, description |-> description, creation_time |-> time,
     importance |-> importance, embedding |-> embedding,
     last_accessed |-> accessed]

\* float(response.strip()) of _calculate_importance, on the rating texts
ParseFloat(text) ==
    CASE text = "2"  -> [ok |-> TRUE, val |-> 2]
      [] text = "5"  -> [ok |-> TRUE, val |-> 5]
      [] text = "8"  -> [ok |-> TRUE, val |-> 8]
      [] text = "11" -> [ok |-> TRUE, val |-> 11]
      [] OTHER       -> [ok |-> FALSE, val |-> 0]

\* stands for self.llm.generate raising instead of returning a text
GenerateRaised == "<raised>"

\* _calculate_importance without its default: a rating that does not parse
\* is stored as 0
CalculateImportanceNoDefault(text) == ParseFloat(text).val

\* _calculate_importance: the parsed rating; 5.0 when generate or float
\* raised (bare except)
CalculateImportance(text) ==
    IF text = GenerateRaised THEN 5
    ELSE IF ParseFloat(text).ok THEN ParseFloat(text).val ELSE 5

\* sorted(xs, key=lambda m: m.<key>, reverse=True): Python's sort is stable
\* and reverse keeps the original order of equal keys, so x goes after
\* every element whose key is >= its own.
RECURSIVE InsertDesc(_, _, _)
InsertDesc(sorted, x, key) ==
    IF sorted = <<>> THEN <<x>>
    ELSE IF Head(sorted)[key] >= x[key]
         THEN <<Head(sorted)>> \o InsertDesc(Tail(sorted), x, key)
         ELSE <<x>> \o sorted

RECURSIVE SortedDesc(_, _)
SortedDesc(s, key) ==
    IF s = <<>> THEN <<>>
    ELSE InsertDesc(SortedDesc(SubSeq(s, 1, Len(s) - 1), key), s[Len(s)], key)

\* get_recent without the sort: the first n of the list as stored
GetRecentUnsorted(mems, n) == Take(mems, n)

\* get_recent(n): sorted by creation_time descending, first n
GetRecent(mems, n) == Take(SortedDesc(mems, "creation_time"), n)

\* retrieve_important ranking by creation_time instead of importance
RetrieveImportantByRecency(mems, top_k) == Take(SortedDesc(mems, "creation_time"), top_k)

\* retrieve_important(top_k): sorted by importance descending, first top_k
RetrieveImportant(mems, top_k) == Take(SortedDesc(mems, "importance"), top_k)

\* ------------------------------------------------------------ the stores
\* the hash add_memory writes: key is the uuid4 of the call
RedisDoc(m) ==
    [key |-> m.oid, description |-> m.description, importance |-> m.importance,
     created_at |-> m.creation_time, embedding |-> m.embedding]

\* the row Database.save_memory inserts
DbRow(m) ==
    [description |-> m.description, importance |-> m.importance,
     embedding |-> m.embedding, created_at |-> m.creation_time,
     last_accessed |-> m.last_accessed]

\* add_memory step 5: if self.redis: try hset except Exception: print
HsetStep(conn, ok, store, m) ==
    IF ~conn THEN [store |-> store, raised |-> FALSE]
    ELSE IF ok THEN [store |-> store \cup {RedisDoc(m)}, raised |-> FALSE]
    ELSE [store |-> store, raised |-> FALSE]

\* save_memory without its try/except: a failed insert propagates
SaveMemoryNoCatch(mode, ok, rows, m) ==
    IF mode = "demo" THEN [rows |-> rows, raised |-> FALSE]
    ELSE IF ok THEN [rows |-> Append(rows, [description |-> m.description,
                         importance |-> m.importance, embedding |-> m.embedding,
                         created_at |-> m.creation_time,
                         last_accessed |-> m.last_accessed]),
                     raised |-> FALSE]
    ELSE [rows |-> rows, raised |-> TRUE]

\* Database.save_memory: demo mode returns at once; the insert and the
\* commit run inside try/except Exception, which prints and returns
SaveMemory(mode, ok, rows, m) ==
    IF mode = "demo" THEN [rows |-> rows, raised |-> FALSE]
    ELSE IF ok THEN [rows |-> Append(rows, DbRow(m)), raised |-> FALSE]
    ELSE [rows |-> rows, raised |-> FALSE]

\* add_memory step 6: if self.db: self.db.save_memory(...)
PersistStep(mode, ok, rows, m) ==
    IF mode = "none" THEN [rows |-> rows, raised |-> FALSE]
    ELSE SaveMemory(mode, ok, rows, m)

\* Database.load_memories + MemoryStream.load_from_db: every row becomes a
\* MemoryObject appended in the order the query returned
RECURSIVE LoadFromDb(_, _)
LoadFromDb(rows, i) ==
    IF i > Len(rows) THEN <<>>
    ELSE <<MemoryObject(100 + i, rows[i].description, rows[i].created_at,
                        rows[i].importance, rows[i].embedding,
                        rows[i].last_accessed)>>
         \o LoadFromDb(rows, i + 1)

\* ------------------------------------------------------------ results
Ret(op, arg, description, time, fault, value, raised) ==
    [op |-> op, arg |-> arg, description |-> description, time |-> time,
     fault |-> fault, value |-> value, raised |-> raised]

NoRet == Ret("init", 0, <<>>, 0, "none", <<>>, FALSE)

\* ------------------------------------------------------------ add_memory
\* the record add_memory builds in steps 1-3
NewMemory(oid, description, time, rating, embOK) ==
    MemoryObject(oid, description, time, CalculateImportance(rating), embOK, time)

\* step 4 putting the record in front of the list
PrependLocal(mems, m) == <<m>> \o mems

\* step 4 left out: the record never reaches the list
DropLocal(mems, m) == mems

\* step 4 re-rating the list: every record takes the new record's importance
AppendRerated(mems, m) ==
    Append([i \in 1 .. Len(mems) |-> [mems[i] EXCEPT !.importance = m.importance]], m)

\* step 4: with self.lock: self.memories.append(memory)
AppendLocal(mems, m) == Append(mems, m)

\* failures among the collaborator calls this add_memory makes: the cache
\* write happens only with a connection, the insert only with a pool
FaultsOf(rating, embOK, hsetOK, dbOK) ==
    (IF ParseFloat(rating).ok THEN 0 ELSE 1) + (IF embOK THEN 0 ELSE 1)
    + (IF hsetOK THEN 0 ELSE 1) + (IF dbOK THEN 0 ELSE 1)

\* add_memory(description, time) given what its collaborators do
AddMemoryBody(description, time, rating, embOK, hsetOK, dbOK) ==
    /\ LET m == NewMemory(nextOid, description, time, rating, embOK)
           h == HsetStep(redis, hsetOK, redisStore, m)
           p == IF h.raised THEN [rows |-> dbRows, raised |-> TRUE]
                ELSE PersistStep(db, dbOK, dbRows, m)
       IN /\ memories' = AppendLocal(memories, m)
          /\ redisStore' = h.store
          /\ dbRows' = p.rows
          /\ ret' = Ret("add_memory", 0, description, time, "none", <<>>,
                        p.raised)
    /\ nextOid' = nextOid + 1
    /\ UNCHANGED <<redis, db>>
    /\ UNCHANGED <<protoVars, gateVars, auxVars>>

\* an add_memory call of the memory specification: within the bounds on
\* calls and on injected failures
AddMemory(description, time, rating, embOK, hsetOK, dbOK) ==
    /\ nextOid <= MaxMem
    /\ redis \/ hsetOK
    /\ db = "pool" \/ dbOK
    /\ addFaults + FaultsOf(rating, embOK, hsetOK, dbOK) <= MaxAddFaults
    /\ addFaults' = addFaults + FaultsOf(rating, embOK, hsetOK, dbOK)
    /\ AddMemoryBody(description, time, rating, embOK, hsetOK, dbOK)

\* an add_memory call whose collaborators all work: the item is rated as
\* the model answers
Ingest(time, rating) ==
    /\ nextOid <= MaxIngest
    /\ addFaults' = addFaults
    /\ AddMemoryBody(DescriptionOf(nextOid), time, rating, TRUE, TRUE, TRUE)

\* ------------------------------------------------------------ get_recent
GetRecentCall(n) ==
    /\ ret' = Ret("get_recent", n, <<>>, 0, "none", GetRecent(memories, n), FALSE)
    /\ UNCHANGED <<redis, db, memories, redisStore, dbRows, nextOid, addFaults>>
    /\ UNCHANGED <<protoVars, gateVars, auxVars>>

\* ------------------------------------------------------------ retrieve_important
RetrieveImportantCall(top_k) ==
    /\ ret' = Ret("retrieve_important", top_k, <<>>, 0, "none",
                  RetrieveImportant(memories, top_k), FALSE)
    /\ UNCHANGED <<redis, db, memories, redisStore, dbRows, nextOid, addFaults>>
    /\ UNCHANGED <<protoVars, gateVars, auxVars>>

\* ------------------------------------------------------------ load_from_db
\* load_memories reading one row of the result (fetchone for fetchall)
LoadMemoriesFirstOnly(mode, ok, rows) ==
    IF mode = "pool" /\ ok THEN Take(rows, 1) ELSE <<>>

\* Database.load_memories: [] in demo mode and when the query fails
LoadMemories(mode, ok, rows) == IF mode = "pool" /\ ok THEN rows ELSE <<>>

\* load_from_db(): every loaded row is appended to the list, under the lock
LoadFromDbCall(ok) ==
    /\ db # "none"
    /\ Len(memories) + Len(dbRows) <= MaxListed
    /\ memories' = memories \o LoadFromDb(LoadMemories(db, ok, dbRows), 1)
    /\ ret' = Ret("load_from_db", 0, <<>>, 0, "none", <<>>, FALSE)
    /\ UNCHANGED <<redis, db, redisStore, dbRows, nextOid, addFaults>>
    /\ UNCHANGED <<protoVars, gateVars, auxVars>>

\* ------------------------------------------------------------ retrieve
\* the steps of the semantic query that can raise, in order; "embed" is an
\* empty query embedding, whose blob the search rejects
Faults == {"none", "embed", "search", "rebuild"}

\* every ordering of k distinct documents of the set: what a KNN search over
\* unknown embeddings may answer
RECURSIVE Orderings(_, _)
Orderings(docs, k) ==
    IF k = 0 \/ docs = {} THEN {<<>>}
    ELSE UNION {{<<d>> \o rest : rest \in Orderings(docs \ {d}, k - 1)} : d \in docs}

\* documents the vector index can answer with: those carrying a vector
Indexed(store) == {d \in store : d.embedding}

\* the MemoryObject retrieve rebuilds from a search document
Rebuild(doc, time) ==
    MemoryObject(0, doc.description, doc.created_at, doc.importance, FALSE, time)

\* retrieve without its except handler: the failure propagates
SearchReraises(mems, top_k) == [value |-> <<>>, raised |-> TRUE]

\* retrieve's except Exception handler: print, return self.get_recent(top_k)
SearchFallback(mems, top_k) == [value |-> GetRecent(mems, top_k), raised |-> FALSE]

\* retrieve(query, time, top_k) given the fault and the search's answer
Retrieve(conn, mems, time, top_k, fault, docs) ==
    IF ~conn THEN [value |-> GetRecent(mems, top_k), raised |-> FALSE]
    ELSE IF fault # "none" THEN SearchFallback(mems, top_k)
    ELSE [value |-> [i \in 1 .. Len(docs) |-> Rebuild(docs[i], time)],
          raised |-> FALSE]

RetrieveCall(time, top_k, fault) ==
    /\ redis \/ fault = "none"
    /\ \E docs \in Orderings(Indexed(redisStore), top_k) :
         LET r == Retrieve(redis, memories, time, top_k, fault, docs)
         IN ret' = Ret("retrieve", top_k, <<>>, time, fault, r.value, r.raised)
    /\ UNCHANGED <<redis, db, memories, redisStore, dbRows, nextOid, addFaults>>
    /\ UNCHANGED <<protoVars, gateVars, auxVars>>

\* ==================================================================
\* Worker threads on one MemoryStream
\* ==================================================================
\* worker threads of one batch
MaxWorkers == 3
Workers == 1 .. MaxWorkers
\* the n of the callers' get_recent(n=5)
RecentN == 5
\* the clock value main.py hands every task of a batch
BatchTime == 1
\* the rating the importance call answers with
BatchRating == "8"

Worker(op, at, made, result) ==
    [op |-> op, pc |-> at, made |-> made, result |-> result]

\* a worker that was not handed a call yet
IdleWorker == Worker("none", "idle", <<>>, <<>>)

\* threading.Lock.acquire returning at once whatever the lock's state
AcquiresHeld(l) == TRUE

\* threading.Lock.acquire returns only when the lock is free
Acquires(l) == l = 0

\* positions between acquiring the lock and leaving the with block
InsideLock == {"locked", "appended", "sorted"}

\* add_memory steps 1-3: the worker builds its record and reaches the with
StartAdd(w) ==
    /\ workers[w].pc = "idle"
    /\ workers' = [workers EXCEPT ![w] =
         Worker("add_memory", "waiting",
                <<NewMemory(nextOid, DescriptionOf(nextOid), BatchTime,
                            BatchRating, TRUE)>>, <<>>)]
    /\ nextOid' = nextOid + 1
    /\ UNCHANGED <<redis, db, memories, redisStore, dbRows, addFaults, ret, lock>>
    /\ UNCHANGED <<protoVars, gateVars, cacheVars, registryVars, indexVars, graphVars>>

\* get_recent is called and reaches the with
StartRecent(w) ==
    /\ workers[w].pc = "idle"
    /\ workers' = [workers EXCEPT ![w] = Worker("get_recent", "waiting", <<>>, <<>>)]
    /\ UNCHANGED <<memVars, lock, protoVars, gateVars, cacheVars, registryVars, indexVars, graphVars>>

\* with self.lock: entry
Acquire(w) ==
    /\ workers[w].pc = "waiting"
    /\ Acquires(lock)
    /\ lock' = w
    /\ workers' = [workers EXCEPT ![w].pc = "locked"]
    /\ UNCHANGED <<memVars, protoVars, gateVars, cacheVars, registryVars, indexVars, graphVars>>

\* add_memory step 4, inside the lock: self.memories.append(memory)
AppendStep(w) ==
    /\ workers[w].op = "add_memory" /\ workers[w].pc = "locked"
    /\ memories' = AppendLocal(memories, workers[w].made[1])
    /\ workers' = [workers EXCEPT ![w].pc = "appended"]
    /\ UNCHANGED <<redis, db, redisStore, dbRows, nextOid, addFaults, ret, lock>>
    /\ UNCHANGED <<protoVars, gateVars, cacheVars, registryVars, indexVars, graphVars>>

\* get_recent inside the lock: sorted(self.memories, ...)[:n]
SortStep(w) ==
    /\ workers[w].op = "get_recent" /\ workers[w].pc = "locked"
    /\ workers' = [workers EXCEPT ![w].pc = "sorted",
                                  ![w].result = GetRecent(memories, RecentN)]
    /\ UNCHANGED <<memVars, lock, protoVars, gateVars, cacheVars, registryVars, indexVars, graphVars>>

\* with self.lock: exit; get_recent returns here
Release(w) ==
    /\ workers[w].pc \in {"appended", "sorted"}
    /\ lock' = 0
    /\ workers' = [workers EXCEPT ![w].pc =
                     IF workers[w].op = "add_memory" THEN "caching" ELSE "done"]
    /\ UNCHANGED <<memVars, protoVars, gateVars, cacheVars, registryVars, indexVars, graphVars>>

\* add_memory step 5, outside the lock: the cache write, which works or
\* fails
CacheAdd(w, ok) ==
    /\ workers[w].op = "add_memory" /\ workers[w].pc = "caching"
    /\ redis \/ ok
    /\ redisStore' = HsetStep(redis, ok, redisStore, workers[w].made[1]).store
    /\ workers' = [workers EXCEPT ![w].pc = "persist"]
    /\ UNCHANGED <<redis, db, memories, dbRows, nextOid, addFaults, ret, lock>>
    /\ UNCHANGED <<protoVars, gateVars, cacheVars, registryVars, indexVars, graphVars>>

\* add_memory step 6: the durable insert, which works or fails
PersistAdd(w, ok) ==
    /\ workers[w].op = "add_memory" /\ workers[w].pc = "persist"
    /\ db = "pool" \/ ok
    /\ dbRows' = PersistStep(db, ok, dbRows, workers[w].made[1]).rows
    /\ workers' = [workers EXCEPT ![w].pc = "done"]
    /\ UNCHANGED <<redis, db, memories, redisStore, nextOid, addFaults, ret, lock>>
    /\ UNCHANGED <<protoVars, gateVars, cacheVars, registryVars, indexVars, graphVars>>

\* no worker thread is running
ThreadIdle == lock = 0 /\ workers = [w \in Workers |-> IdleWorker]

\* ==================================================================
\* The self-correcting generation protocol
\* ==================================================================
\* Free text is a sequence of characters.
TxtEmpty == <<>>
TxtPASS == <<"P", "A", "S", "S">>
TxtPassDot == <<"P", "A", "S", "S", ".">>
TxtPassLong == <<"P", "A", "S", "S", " ", "-", " ", "s", "t", "r", "o", "n", "g", " ", "s", "y", "n", "t", "h", "e", "s", "i", "s">>
TxtFail == <<"F", "A", "I", "L", ":", " ", "t", "i", "t", "l", "e", " ", "m", "i", "s", "m", "a", "t", "c", "h">>
TxtDraftA == <<"d", "r", "a", "f", "t", " ", "A">>
TxtDraftB == <<"d", "r", "a", "f", "t", " ", "B">>
TxtFinalA == <<"f", "i", "n", "a", "l", " ", "A">>

\* sub in text, Python's `sub in text` on str
Contains(text, sub) ==
    \E i \in 0 .. (Len(text) - Len(sub)) :
        \A j \in 1 .. Len(sub) : text[i + j] = sub[j]

\* ------------------------------------------------------------ str methods
\* Texts are sequences of one-character strings, so that split, strip,
\* upper, replace, startswith, endswith and len act on characters.

\* characters str.strip() removes
Whitespace == {" ", "\n", "\t"}

LowerLetters == <<"a", "b", "c", "d", "e", "f", "g", "h", "i", "j", "k", "l", "m", "n", "o", "p", "q", "r", "s", "t", "u", "v", "w", "x", "y", "z">>
UpperLetters == <<"A", "B", "C", "D", "E", "F", "G", "H", "I", "J", "K", "L", "M", "N", "O", "P", "Q", "R", "S", "T", "U", "V", "W", "X", "Y", "Z">>

\* str.upper() and str.lower(), character by character
UpperChar(c) ==
    IF \E i \in 1 .. Len(LowerLetters) : LowerLetters[i] = c
    THEN UpperLetters[CHOOSE i \in 1 .. Len(LowerLetters) : LowerLetters[i] = c]
    ELSE c

LowerChar(c) ==
    IF \E i \in 1 .. Len(UpperLetters) : UpperLetters[i] = c
    THEN LowerLetters[CHOOSE i \in 1 .. Len(UpperLetters) : UpperLetters[i] = c]
    ELSE c

Upper(text) == [i \in 1 .. Len(text) |-> UpperChar(text[i])]

Lower(text) == [i \in 1 .. Len(text) |-> LowerChar(text[i])]

RECURSIVE LStrip(_)
LStrip(text) ==
    IF text # <<>> /\ Head(text) \in Whitespace THEN LStrip(Tail(text)) ELSE text

RECURSIVE RStrip(_)
RStrip(text) ==
    IF text # <<>> /\ text[Len(text)] \in Whitespace
    THEN RStrip(SubSeq(text, 1, Len(text) - 1))
    ELSE text

\* str.strip()
Strip(text) == RStrip(LStrip(text))

\* str.startswith / str.endswith
StartsWith(text, prefix) ==
    Len(prefix) <= Len(text) /\ SubSeq(text, 1, Len(prefix)) = prefix

EndsWith(text, suffix) ==
    /\ Len(suffix) <= Len(text)
    /\ SubSeq(text, Len(text) - Len(suffix) + 1, Len(text)) = suffix

\* str.find(sub) + 1: the position of the first occurrence, 0 if none
Find(text, sub) ==
    IF Contains(text, sub)
    THEN CHOOSE i \in 1 .. Len(text) - Len(sub) + 1 :
           /\ SubSeq(text, i, i + Len(sub) - 1) = sub
           /\ \A j \in 1 .. i - 1 : SubSeq(text, j, j + Len(sub) - 1) # sub
    ELSE 0

\* text.split(sub, 1)[1]: what follows the first occurrence of sub
AfterFirst(text, sub) == SubSeq(text, Find(text, sub) + Len(sub), Len(text))

\* text.split(sep): the pieces between the occurrences of sep
RECURSIVE Split(_, _)
Split(text, sep) ==
    IF Find(text, sep) = 0 THEN <<text>>
    ELSE <<SubSeq(text, 1, Find(text, sep) - 1)>> \o Split(AfterFirst(text, sep), sep)

\* sep.join(pieces)
RECURSIVE Join(_, _)
Join(pieces, sep) ==
    IF pieces = <<>> THEN <<>>
    ELSE IF Len(pieces) = 1 THEN pieces[1]
    ELSE pieces[1] \o sep \o Join(Tail(pieces), sep)

\* text.replace(c, '') for every character c of chars
Remove(text, chars) == SelectSeq(text, LAMBDA c : c \notin chars)

\* ------------------------------------------------------------ LLM.generate
\* What one generate call does, given what its collaborators do: the cache
\* lookup ("miss", "hit", "error"), the completion request ("text",
\* "blank": content that strips to "", "error") and the cache store ("ok",
\* "error"). The lookup runs only with a connection and temperature 0.0 and
\* stands outside the try block; the request and the store stand inside it.
GenerateOutcome(conn, tempZero, lookup, api, store) ==
    IF conn /\ tempZero /\ lookup = "error" THEN "raise"
    ELSE IF conn /\ tempZero /\ lookup = "hit" THEN "cached"
    ELSE IF api = "error" THEN "empty"
    ELSE IF api = "blank" THEN "empty"
    ELSE IF conn /\ tempZero /\ store = "error" THEN "empty"
    ELSE "fresh"

Lookups == {"miss", "hit", "error"}
Apis == {"text", "blank", "error"}
Stores == {"ok", "error"}

\* ------------------------------------------------------------ the response cache
\* generate calls per run of the cache specification
MaxCalls == 3
\* temperatures callers pass, in tenths: 0.0 and the default 0.7
Temperatures == {0, 7}
SystemMessages == {<<"s">>, <<"s", "p">>}
Prompts == {<<"p">>, <<"p", "p">>}
\* the model name of llm.py:16
ModelName == <<"m">>
\* contents the completion request returns, stripped and not empty
Completions == {<<"x">>, <<"y">>}

\* the text whose md5 digest names the cache entry; distinct texts have
\* distinct digests
CacheKey(system_message, prompt) == system_message \o prompt \o ModelName

CacheKeys == {CacheKey(sm, pr) : sm \in SystemMessages, pr \in Prompts}

\* the temperature test dropped: every call counts as deterministic
TemperatureAny(temperature) == TRUE

\* temperature == 0.0
TemperatureZero(temperature) == temperature = 0

\* the store made whatever the call ends with
StoresResponseAlways(out) == out \in {"fresh", "empty"}

\* the cache store is reached only with content that is not empty, and a
\* store that fails leaves no entry
StoresResponse(out) == out = "fresh"

\* a call made: its number, its (system instruction, prompt, model)
\* triple, the cache key computed from it, and what it returned
Generated(seq, call, key, temperature, outcome, value) ==
    [seq |-> seq, call |-> call, key |-> key, temperature |-> temperature,
     outcome |-> outcome, value |-> value]

\* self.redis.get(cache_key) and the test of its result
LookupOf(cache, key, ok) ==
    IF ~ok THEN "error" ELSE IF cache[key] # <<>> THEN "hit" ELSE "miss"

\* LLM.generate(prompt, system_message, temperature) given whether the cache
\* lookup works, what the completion request does and whether the cache
\* store works
Generate(system_message, prompt, temperature, lookupOK, api, content, store) ==
    /\ generated.seq < MaxCalls
    /\ LET key == CacheKey(system_message, prompt)
           zero == TemperatureZero(temperature)
           out == GenerateOutcome(llmRedis, zero,
                                  LookupOf(llmCache, key, lookupOK), api, store)
       IN /\ llmCache' = IF StoresResponse(out) /\ llmRedis /\ zero
                         THEN [llmCache EXCEPT ![key] = content]
                         ELSE llmCache
          /\ generated' = Generated(generated.seq + 1,
                                    <<system_message, prompt, ModelName>>,
                                    key, temperature, out,
                                    CASE out = "cached" -> llmCache[key]
                                      [] out = "fresh" -> content
                                      [] OTHER -> <<>>)
    /\ UNCHANGED <<memVars, protoVars, gateVars, threadVars, registryVars, indexVars, graphVars>>

\* setex(cache_key, 86400, content): the entry lapses after 24 hours
Expire(key) ==
    /\ llmCache[key] # <<>>
    /\ llmCache' = [llmCache EXCEPT ![key] = <<>>]
    /\ UNCHANGED <<generated, memVars, protoVars, gateVars, threadVars, registryVars, indexVars, graphVars>>

\* an empty cache and no call made
CacheIdle ==
    /\ llmCache = [k \in CacheKeys |-> <<>>]
    /\ generated = Generated(0, <<>>, <<>>, 0, "none", <<>>)

\* ------------------------------------------------------------ DrMatrix documents
\* A model answer to an extraction prompt: optional prose around at most one
\* JSON value, a list of records or one record. kind "none" is prose only
\* (or nothing at all: the empty string).
Doc(prose, kind, data) == [prose |-> prose, kind |-> kind, data |-> data]

DocEmpty == Doc(FALSE, "none", <<>>)

\* json.dumps of a list
JsonList(data) == Doc(FALSE, "list", data)

\* a record of the list: epistemic_check tells whether the record's
\* "epistemic_check" is a JSON object ("object") or some other value, in
\* which case it has none of the four fields and they read as ""
Entry(title, claim, design, intervention, source, severity) ==
    [study_title |-> title, epistemic_check |-> "object",
     title_claim_type |-> claim,
     study_design_type |-> design, intervention_type |-> intervention,
     data_source_type |-> source, gap_severity |-> severity]

WCausal == <<"c", "a", "u", "s", "a", "l">>
WAssociat == <<"a", "s", "s", "o", "c", "i", "a", "t">>
WAssociative == <<"a", "s", "s", "o", "c", "i", "a", "t", "i", "v", "e">>
WObservational == <<"o", "b", "s", "e", "r", "v", "a", "t", "i", "o", "n", "a", "l">>
WRct == <<"r", "c", "t">>
WRandom == <<"r", "a", "n", "d", "o", "m">>
WRandomized == <<"r", "a", "n", "d", "o", "m", "i", "z", "e", "d">>
WBehavioral == <<"b", "e", "h", "a", "v", "i", "o", "r", "a", "l">>
WDrug == <<"d", "r", "u", "g">>
WSelfReported == <<"s", "e", "l", "f", "-", "r", "e", "p", "o", "r", "t", "e", "d">>
WSensor == <<"s", "e", "n", "s", "o", "r">>
WHigh == <<"H", "i", "g", "h">>
WLow == <<"L", "o", "w">>
WCausalCap == <<"C", "a", "u", "s", "a", "l">>
WObservationalCap == <<"O", "b", "s", "e", "r", "v", "a", "t", "i", "o", "n", "a", "l">>
WMedium == <<"M", "e", "d", "i", "u", "m">>
WRctCap == <<"R", "C", "T">>
WCohort == <<"c", "o", "h", "o", "r", "t">>

\* records the model may answer with
EntryCausalObs == Entry("T1", WCausal, WObservational, WDrug, WSensor, WLow)
EntryAssocBehav == Entry("T2", WAssociative, WObservational, WBehavioral, WSelfReported, WMedium)
EntryCausalCaps == Entry("T4", WCausalCap, WObservationalCap, WDrug, WSensor, WMedium)
EntryRct == Entry("T3", WCausal, WRandomized, WDrug, WSensor, WMedium)
EntryBehavRct == Entry("T5", WCausal, WRctCap, WBehavioral, WSelfReported, WLow)
EntryAssocObs == Entry("T6", WAssociative, WObservational, WDrug, WSensor, WHigh)
EntryNoRule == Entry("T7", WCausal, WCohort, WDrug, WSensor, WMedium)
\* "epistemic_check": "n/a"
EntryNoCheck == [Entry("T8", <<>>, <<>>, <<>>, <<>>, <<>>) EXCEPT !.epistemic_check = "text"]

\* _extract_json without its fallback: text holding no JSON comes back as is
ExtractJsonNoFallback(doc) ==
    IF doc.kind = "none" THEN doc
    ELSE [prose |-> FALSE, kind |-> "list", data |-> doc.data]

\* _extract_json: the first [ {...} ] list, else the first {...} object
\* wrapped in a list, else the whole text if it loads as JSON, else "[]"
ExtractJson(doc) ==
    IF doc.kind = "list" /\ doc.data # <<>> THEN JsonList(doc.data)
    ELSE IF doc.kind = "object" THEN JsonList(doc.data)
    ELSE JsonList(<<>>)

\* the severity rules without the causal/observational one
EnforceEntryNoCausalRule(e) ==
    LET claim == Lower(e.title_claim_type)
        design == Lower(e.study_design_type)
        intervention == Lower(e.intervention_type)
        data_source == Lower(e.data_source_type)
    IN IF Contains(intervention, WBehavioral) /\ Contains(data_source, WSelfReported)
       THEN [e EXCEPT !.gap_severity = WHigh]
       ELSE IF Contains(claim, WAssociat) /\ Contains(design, WObservational)
       THEN [e EXCEPT !.gap_severity = WLow]
       ELSE IF Contains(design, WRct) \/ Contains(design, WRandom)
       THEN [e EXCEPT !.gap_severity = WLow]
       ELSE e

\* the severity rules with the randomized-design rule tried first
EnforceEntryRctFirst(e) ==
    LET claim == Lower(e.title_claim_type)
        design == Lower(e.study_design_type)
        intervention == Lower(e.intervention_type)
        data_source == Lower(e.data_source_type)
    IN IF Contains(design, WRct) \/ Contains(design, WRandom)
       THEN [e EXCEPT !.gap_severity = WLow]
       ELSE IF Contains(intervention, WBehavioral) /\ Contains(data_source, WSelfReported)
       THEN [e EXCEPT !.gap_severity = WHigh]
       ELSE IF Contains(claim, WAssociat) /\ Contains(design, WObservational)
       THEN [e EXCEPT !.gap_severity = WLow]
       ELSE IF Contains(claim, WCausal) /\ Contains(design, WObservational)
       THEN [e EXCEPT !.gap_severity = WHigh]
       ELSE [e EXCEPT !.epistemic_check = "object"]

\* _enforce_deterministic_logic on one record: an epistemic_check that is
\* no object is replaced by {}; then the severity rules on the lower-cased
\* fields, first match wins
EnforceEntry(e) ==
    LET check == [e EXCEPT !.epistemic_check = "object"]
        claim == Lower(check.title_claim_type)
        design == Lower(check.study_design_type)
        intervention == Lower(check.intervention_type)
        data_source == Lower(check.data_source_type)
    IN IF Contains(intervention, WBehavioral) /\ Contains(data_source, WSelfReported)
       THEN [check EXCEPT !.gap_severity = WHigh]
       ELSE IF Contains(claim, WAssociat) /\ Contains(design, WObservational)
       THEN [check EXCEPT !.gap_severity = WLow]
       ELSE IF Contains(claim, WCausal) /\ Contains(design, WObservational)
       THEN [check EXCEPT !.gap_severity = WHigh]
       ELSE IF Contains(design, WRct) \/ Contains(design, WRandom)
       THEN [check EXCEPT !.gap_severity = WLow]
       ELSE check

\* _enforce_deterministic_logic: re-extract, apply the rules to every record
EnforceDeterministicLogic(doc) ==
    LET data == ExtractJson(doc).data
    IN JsonList([i \in 1 .. Len(data) |-> EnforceEntry(data[i])])

\* ------------------------------------------------------------ the three tasks
Tasks == {"matrix", "genesis", "meta"}

\* the empty string in the task's text type
EmptyOf(t) == IF t = "matrix" THEN DocEmpty ELSE TxtEmpty

\* answers the model may give to the draft and the refine/rewrite prompts
DraftAnswers(t) ==
    IF t = "matrix"
    THEN {Doc(TRUE, "none", <<>>),
          Doc(TRUE, "list", <<EntryCausalObs>>),
          Doc(FALSE, "list", <<EntryCausalCaps>>),
          Doc(FALSE, "object", <<EntryAssocBehav>>),
          Doc(FALSE, "list", <<EntryBehavRct, EntryAssocObs, EntryNoRule, EntryNoCheck>>)}
    ELSE {TxtDraftA, TxtDraftB}

RefineAnswers(t) ==
    IF t = "matrix"
    THEN {Doc(TRUE, "none", <<>>),
          Doc(FALSE, "list", <<EntryRct, EntryCausalObs>>)}
    ELSE {TxtFinalA}

\* answers to the audit / review / critique prompt
AuditAnswers == {TxtPASS, TxtPassDot, TxtPassLong, TxtFail}

\* temperature == 0.0 for the call (matrix.py 175, 213, 236; genesis.py 62,
\* 88, 105; meta_reviewer.py 342, 348, 371, 393)
TempZero(t, step) ==
    IF t = "matrix" THEN TRUE
    ELSE IF t = "genesis" THEN step = "audit"
    ELSE FALSE

\* _generate_draft and _refine_draft pass the answer through _extract_json
DraftValue(t, answer) == IF t = "matrix" THEN ExtractJson(answer) ELSE answer

\* a second retry of the draft call
DraftRetriesTwice(t) == IF t = "meta" THEN 2 ELSE 0

\* how many times the draft call is repeated when it returns nothing
DraftRetries(t) == IF t = "meta" THEN 1 ELSE 0

\* the decision taken only on the bare token
PassSignalExact(t, crit) == crit = TxtPASS

\* fail-open: an empty critique counts as a pass
PassSignalOrEmpty(t, crit) ==
    \/ crit = TxtEmpty
    \/ IF t = "meta" THEN Contains(crit, TxtPASS) /\ Len(crit) < 20
       ELSE Contains(crit, TxtPASS)

\* the decision taken on the word alone in every task
PassSignalContains(t, crit) == Contains(crit, TxtPASS)

\* the decision after the audit: accept the draft?
PassSignal(t, crit) ==
    IF t = "meta" THEN Contains(crit, TxtPASS) /\ Len(crit) < 20
    ELSE Contains(crit, TxtPASS)

\* what the task returns for the text it settled on
FinalOf(t, text) == IF t = "matrix" THEN EnforceDeterministicLogic(text) ELSE text

\* the refine branch returning the draft it was given
FinalKeepsDraft(t, d, r) == IF t = "matrix" THEN EnforceDeterministicLogic(d) ELSE d

\* the refine branch's result
FinalAfterRefine(t, d, r) == FinalOf(t, r)

NoCalls == [draft |-> 0, audit |-> 0, refine |-> 0]

LlmCalls == calls.draft + calls.audit + calls.refine

Terminal == {"accepted", "aborted", "raised"}

\* a task is invoked
Invoke(t) ==
    /\ pc \in Terminal \cup {"idle"}
    /\ task' = t
    /\ pc' = "drafting"
    /\ draftRaw' = EmptyOf(t) /\ draft' = EmptyOf(t)
    /\ critique' = TxtEmpty /\ refined' = EmptyOf(t) /\ final' = EmptyOf(t)
    /\ calls' = NoCalls /\ finals' = 0 /\ trail' = <<>>
    /\ UNCHANGED <<llmRedis, memVars, gateVars, auxVars>>

\* the draft call, and for "meta" its one retry
DraftStep(lookup, api, store, answer) ==
    /\ pc = "drafting"
    /\ answer \in DraftAnswers(task)
    /\ LET out == GenerateOutcome(llmRedis, TempZero(task, "draft"), lookup, api, store)
           got == IF out \in {"cached", "fresh"} THEN answer ELSE EmptyOf(task)
       IN /\ calls' = [calls EXCEPT !.draft = @ + 1]
          /\ draftRaw' = got
          /\ IF out = "raise"
             THEN pc' = "raised" /\ UNCHANGED <<draft, trail>>
             ELSE IF task = "meta" /\ got = TxtEmpty
             THEN /\ pc' = IF calls.draft < DraftRetries(task)
                           THEN "drafting" ELSE "aborted"
                  /\ UNCHANGED <<draft, trail>>
             ELSE /\ draft' = DraftValue(task, got)
                  /\ pc' = "auditing"
                  /\ trail' = Append(trail, "DRAFTED")
    /\ UNCHANGED <<llmRedis, task, critique, refined, final, finals, memVars, gateVars, auxVars>>

\* the audit call
AuditStep(lookup, api, store, answer) ==
    /\ pc = "auditing"
    /\ answer \in AuditAnswers
    /\ LET out == GenerateOutcome(llmRedis, TempZero(task, "audit"), lookup, api, store)
       IN /\ calls' = [calls EXCEPT !.audit = @ + 1]
          /\ IF out = "raise"
             THEN pc' = "raised" /\ UNCHANGED <<critique, trail>>
             ELSE /\ critique' = IF out \in {"cached", "fresh"} THEN answer ELSE TxtEmpty
                  /\ pc' = "audited"
                  /\ trail' = Append(trail, "AUDITED")
    /\ UNCHANGED <<llmRedis, task, draftRaw, draft, refined, final, finals, memVars, gateVars, auxVars>>

\* the pass branch: the draft is returned
AcceptStep ==
    /\ pc = "audited"
    /\ PassSignal(task, critique)
    /\ final' = FinalOf(task, draft)
    /\ finals' = finals + 1
    /\ pc' = "accepted"
    /\ trail' = Append(trail, "ACCEPTED")
    /\ UNCHANGED <<llmRedis, task, draftRaw, draft, critique, refined, calls, memVars, gateVars, auxVars>>

\* the other branch: the refine call, whose result is returned
RefineStep(lookup, api, store, answer) ==
    /\ pc = "audited"
    /\ ~PassSignal(task, critique)
    /\ answer \in RefineAnswers(task)
    /\ LET out == GenerateOutcome(llmRedis, TempZero(task, "refine"), lookup, api, store)
           got == IF out \in {"cached", "fresh"} THEN answer ELSE EmptyOf(task)
       IN /\ calls' = [calls EXCEPT !.refine = @ + 1]
          /\ IF out = "raise"
             THEN pc' = "raised" /\ UNCHANGED <<refined, final, finals, trail>>
             ELSE /\ refined' = DraftValue(task, got)
                  /\ final' = FinalAfterRefine(task, draft, DraftValue(task, got))
                  /\ finals' = finals + 1
                  /\ pc' = "accepted"
                  /\ trail' = trail \o <<"REFINED", "ACCEPTED">>
    /\ UNCHANGED <<llmRedis, task, draftRaw, draft, critique, memVars, gateVars, auxVars>>

\* no task has been invoked
ProtoIdle ==
    /\ llmRedis = FALSE
    /\ task = "matrix"
    /\ pc = "idle"
    /\ draftRaw = DocEmpty /\ draft = DocEmpty
    /\ critique = TxtEmpty /\ refined = DocEmpty /\ final = DocEmpty
    /\ calls = NoCalls /\ finals = 0 /\ trail = <<>>

ProtoInit ==
    /\ llmRedis \in BOOLEAN
    /\ task = "matrix"
    /\ pc = "idle"
    /\ draftRaw = DocEmpty /\ draft = DocEmpty
    /\ critique = TxtEmpty /\ refined = DocEmpty /\ final = DocEmpty
    /\ calls = NoCalls /\ finals = 0 /\ trail = <<>>

MemIdle ==
    /\ redis = FALSE /\ db = "none" /\ dbRows = <<>> /\ memories = <<>>
    /\ redisStore = {} /\ nextOid = 1 /\ addFaults = 0 /\ ret = NoRet


\* ==================================================================
\* Storage names of the agents' streams
\* ==================================================================
\* names MemoryStreams are constructed with
AgentNames ==
    {<<"D", "r", ".", " ", "A">>,
     <<"D", "r", ".", " ", "V">>,
     <<"D", "r", ".", "_", "A">>,
     <<"D", "r", ".", " ", "V", ":", "2">>}
\* str(uuid.uuid4()) of three add_memory calls
Uuids == {<<"1">>, <<"2">>, <<"3">>}

\* text.replace(old, new) for single characters
Replace(text, old, new) ==
    [i \in 1 .. Len(text) |-> IF text[i] = old THEN new ELSE text[i]]

\* self.agent_name
SafeName(name) == Replace(name, " ", "_")

\* self.index_name
IndexName(agent_name) == <<"i", "d", "x", ":", "m", "e", "m", "o", "r", "y", ":">> \o agent_name

\* the prefix of the index definition
KeyPrefix(agent_name) == <<"m", "e", "m", "o", "r", "y", ":">> \o agent_name \o <<":">>

\* the key add_memory writes its hash under
MemoryKey(agent_name, uuid) == <<"m", "e", "m", "o", "r", "y", ":">> \o agent_name \o <<":">> \o uuid

\* MemoryStream(llm, db, name) with a cache connection: the index is created
\* unless one of that name exists
Construct(name) ==
    /\ name \notin constructed
    /\ constructed' = constructed \cup {name}
    /\ indexes' =
         IF \E ix \in indexes : ix.index_name = IndexName(SafeName(name))
         THEN indexes
         ELSE indexes \cup {[index_name |-> IndexName(SafeName(name)),
                             prefix |-> KeyPrefix(SafeName(name))]}
    /\ UNCHANGED <<hashKeys, memVars, protoVars, gateVars, threadVars, cacheVars,
                   indexVars, graphVars>>

\* add_memory step 5 of the stream constructed with name; every uuid4 is new
WriteKey(name, uuid) ==
    /\ name \in constructed
    /\ \A h \in hashKeys : h.uuid # uuid
    /\ hashKeys' = hashKeys \cup
         {[agent |-> name, uuid |-> uuid, key |-> MemoryKey(SafeName(name), uuid)]}
    /\ UNCHANGED <<constructed, indexes, memVars, protoVars, gateVars,
                   threadVars, cacheVars, indexVars, graphVars>>

\* ------------------------------------------------------------ _create_index
\* the name the constructions are given
BuildNames == {<<"D", "r", ".", " ", "A">>}
\* MemoryStream constructions per run of the index specification
MaxBuilders == 2
Builders == 1 .. MaxBuilders

Builder(name, at, saw, existed, issued, outcome) ==
    [name |-> name, pc |-> at, saw |-> saw, existed |-> existed,
     issued |-> issued, outcome |-> outcome]

\* a construction that has not begun
NoBuilder == Builder(<<>>, "idle", "none", FALSE, FALSE, "none")

\* an index of the agent's name is in the cache
IndexExists(agent_name) ==
    \E ix \in indexes : ix.index_name = IndexName(agent_name)

\* self.redis.ft(self.index_name).info(): returns for an existing index,
\* raises for a missing one and when the call itself fails
InfoOutcome(exists, ok) ==
    IF ~ok THEN "error" ELSE IF exists THEN "found" ELSE "absent"

\* the bare except taken whatever the check saw
NeedsCreateAlways(saw) == TRUE

\* except: after info(): any exception leads to the create
NeedsCreate(saw) == saw # "found"

\* create_index outside its try: the server's refusal propagates
CreateOutcomeNoCatch(exists, ok) ==
    IF ok /\ ~exists THEN "created" ELSE "raised"

\* create_index inside try/except Exception: the server refuses an existing
\* name, the call may fail; both are printed
CreateOutcome(exists, ok) ==
    IF ok /\ ~exists THEN "created" ELSE "caught"

\* MemoryStream(llm, db, name) is called with a cache connection
StartBuild(b, name) ==
    /\ builders[b].pc = "idle"
    /\ builders' = [builders EXCEPT ![b] =
                      Builder(name, "checking", "none", FALSE, FALSE, "none")]
    /\ UNCHANGED <<createCalls, registryVars, memVars, protoVars, gateVars,
                   threadVars, cacheVars, graphVars>>

\* _create_index: the existence check
CheckIndex(b, ok) ==
    /\ builders[b].pc = "checking"
    /\ LET exists == IndexExists(SafeName(builders[b].name))
           saw == InfoOutcome(exists, ok)
       IN builders' = [builders EXCEPT
              ![b].saw = saw, ![b].existed = exists,
              ![b].pc = IF NeedsCreate(saw) THEN "creating" ELSE "done",
              ![b].outcome = IF NeedsCreate(saw) THEN "none" ELSE "found"]
    /\ constructed' = IF builders'[b].pc = "done"
                      THEN constructed \cup {builders[b].name} ELSE constructed
    /\ UNCHANGED <<createCalls, indexes, hashKeys, memVars, protoVars, gateVars,
                   threadVars, cacheVars, graphVars>>

\* _create_index: the create call and its handler
CreateIndex(b, ok) ==
    /\ builders[b].pc = "creating"
    /\ LET agent_name == SafeName(builders[b].name)
           out == CreateOutcome(IndexExists(agent_name), ok)
       IN /\ indexes' = IF out = "created"
                        THEN indexes \cup {[index_name |-> IndexName(agent_name),
                                            prefix |-> KeyPrefix(agent_name)]}
                        ELSE indexes
          /\ builders' = [builders EXCEPT
                 ![b].issued = TRUE, ![b].outcome = out,
                 ![b].pc = IF out = "raised" THEN "failed" ELSE "done"]
          /\ constructed' = IF out = "raised" THEN constructed
                            ELSE constructed \cup {builders[b].name}
    /\ createCalls' = createCalls + 1
    /\ UNCHANGED <<hashKeys, memVars, protoVars, gateVars, threadVars, cacheVars, graphVars>>

\* no construction is under way
IndexIdle == builders = [b \in Builders |-> NoBuilder] /\ createCalls = 0

\* no stream has been constructed
RegistryIdle == constructed = {} /\ indexes = {} /\ hashKeys = {}

\* nothing but one stream, one task and one discussion is in play
\* ------------------------------------------------------------ the knowledge graph
\* worker threads of one batch that reach the knowledge-graph update
MaxUpdaters == 2
Updaters == 1 .. MaxUpdaters
\* papers handed to the worker threads over the batches of a run
MaxUpdates == 3

\* titles of the papers of a batch: two that agree but for case and
\* surrounding whitespace, another one, and a paper without title
PaperTitles == {<<"S", "a">>, <<" ", "s", "A", " ">>, <<"B">>, <<>>}

\* an entry of the graph: a claim of claims_data after its study_title was
\* overwritten with the paper's title; by and no tell the extraction and
\* the claim's place in it
Claim(title, by, no) == [study_title |-> title, by |-> by, no |-> no]

\* str(title).strip().lower()
CleanTitle(title) == Lower(Strip(title))

\* the deduplicating loop: a claim with a title is appended when its clean
\* title is not among the titles seen so far, and its title is then seen
RECURSIVE AppendNew(_, _, _)
AppendNew(existing_kg, existing_titles, claims_data) ==
    IF claims_data = <<>> THEN existing_kg
    ELSE LET claim == Head(claims_data)
             clean_title == CleanTitle(claim.study_title)
         IN IF claim.study_title # <<>> /\ clean_title \notin existing_titles
            THEN AppendNew(Append(existing_kg, claim),
                           existing_titles \cup {clean_title}, Tail(claims_data))
            ELSE AppendNew(existing_kg, existing_titles, Tail(claims_data))

\* the list written back: the list read plus the new claims
Merged(existing_kg, claims_data) ==
    AppendNew(existing_kg,
              {CleanTitle(existing_kg[i].study_title) : i \in 1 .. Len(existing_kg)},
              claims_data)

Updater(at, title, runs, claims_data, existing_kg, appended) ==
    [pc |-> at, title |-> title, runs |-> runs, claims_data |-> claims_data,
     existing_kg |-> existing_kg, appended |-> appended]

\* the papers handed out so far
RECURSIVE Updates(_, _)
Updates(us, n) == IF n = 0 THEN 0 ELSE us[n].runs + Updates(us, n - 1)

\* a worker thread that was not handed a paper yet
IdleUpdater == Updater("idle", <<>>, 0, <<>>, <<>>, <<>>)

\* the with statement entered whatever the lock's state
MatrixLockHeld(l) == TRUE

\* with Researcher._matrix_lock: entered only when the lock is free
MatrixLockFree(l) == l = 0

\* process_paper_task: the agent that updates the graph has extracted n
\* claims from the thread's next paper and reaches the with statement
StartUpdate(u, title, n) ==
    /\ updaters[u].pc \in {"idle", "done"}
    /\ Updates(updaters, MaxUpdaters) < MaxUpdates
    /\ updaters' = [updaters EXCEPT ![u] =
         Updater("waiting", title, updaters[u].runs + 1,
                 [i \in 1 .. n |-> Claim(title, <<u, updaters[u].runs + 1>>, i)],
                 <<>>, updaters[u].appended)]
    /\ UNCHANGED <<kg_file, matrix_lock>>
    /\ UNCHANGED <<memVars, protoVars, gateVars, threadVars, cacheVars, registryVars, indexVars>>

\* with Researcher._matrix_lock: entry
AcquireMatrix(u) ==
    /\ updaters[u].pc = "waiting"
    /\ MatrixLockFree(matrix_lock)
    /\ matrix_lock' = u
    /\ updaters' = [updaters EXCEPT ![u].pc = "locked"]
    /\ UNCHANGED kg_file
    /\ UNCHANGED <<memVars, protoVars, gateVars, threadVars, cacheVars, registryVars, indexVars>>

\* existing_kg = json.load(f), [] when the file does not exist
ReadGraph(u) ==
    /\ updaters[u].pc = "locked"
    /\ updaters' = [updaters EXCEPT ![u].pc = "read", ![u].existing_kg = kg_file]
    /\ UNCHANGED <<kg_file, matrix_lock>>
    /\ UNCHANGED <<memVars, protoVars, gateVars, threadVars, cacheVars, registryVars, indexVars>>

\* the deduplicating loop and json.dump(existing_kg, f)
WriteGraph(u) ==
    /\ updaters[u].pc = "read"
    /\ LET merged == Merged(updaters[u].existing_kg, updaters[u].claims_data)
       IN /\ kg_file' = merged
          /\ updaters' = [updaters EXCEPT
                ![u].pc = "written",
                ![u].appended = @ \o SubSeq(merged, Len(updaters[u].existing_kg) + 1,
                                            Len(merged))]
    /\ UNCHANGED matrix_lock
    /\ UNCHANGED <<memVars, protoVars, gateVars, threadVars, cacheVars, registryVars, indexVars>>

\* with Researcher._matrix_lock: exit
ReleaseMatrix(u) ==
    /\ updaters[u].pc = "written"
    /\ matrix_lock' = 0
    /\ updaters' = [updaters EXCEPT ![u].pc = "done"]
    /\ UNCHANGED kg_file
    /\ UNCHANGED <<memVars, protoVars, gateVars, threadVars, cacheVars, registryVars, indexVars>>

\* no graph file and no thread updating it
GraphIdle ==
    /\ kg_file = <<>> /\ matrix_lock = 0
    /\ updaters = [u \in Updaters |-> IdleUpdater]

AuxIdle == ThreadIdle /\ CacheIdle /\ RegistryIdle /\ IndexIdle /\ GraphIdle

\* ==================================================================
\* The fact-check gate of Researcher.discuss_with
\* ==================================================================
\* ------------------------------------------------------------ the words of the gate
KwStatus == <<"S", "t", "a", "t", "u", "s", ":">>
KwEvidence == <<"E", "v", "i", "d", "e", "n", "c", "e", ":">>
KwJoint == <<"J", "o", "i", "n", "t", " ", "S", "t", "a", "t", "e", "m", "e", "n", "t", ":">>
StUnknown == <<"U", "N", "K", "N", "O", "W", "N">>
StVerified == <<"V", "E", "R", "I", "F", "I", "E", "D">>
StVerifiedSynthesis == <<"V", "E", "R", "I", "F", "I", "E", "D", "_", "S", "Y", "N", "T", "H", "E", "S", "I", "S">>
StUnsupported == <<"U", "N", "S", "U", "P", "P", "O", "R", "T", "E", "D">>
StHypothesis == <<"H", "Y", "P", "O", "T", "H", "E", "S", "I", "S">>
KwQuotes == <<"q", "u", "o", "t", "e", "s", ":">>
KwReflection == <<"r", "e", "f", "l", "e", "c", "t", "i", "o", "n", ":">>
KwDiscussion == <<"d", "i", "s", "c", "u", "s", "s", "i", "o", "n", ":">>
KwObservations == <<"b", "a", "s", "e", "d", " ", "o", "n", " ", "t", "h", "e", " ", "p", "r", "o", "v", "i", "d", "e", "d", " ", "o", "b", "s", "e", "r", "v", "a", "t", "i", "o", "n", "s">>
TagHypothesis == <<"[", "H", "Y", "P", "O", "T", "H", "E", "S", "I", "S", "]", " ">>

\* len(evidence_text) < 10
MinEvidenceLen == 10

\* ------------------------------------------------------------ parsing the fact check
\* the loop variables status, evidence_lines, parsing_evidence
ParseState(st, evidence_lines, parsing_evidence) ==
    [status |-> st, evidence_lines |-> evidence_lines,
     parsing_evidence |-> parsing_evidence]

\* the loop body without its last branch: lines after the Evidence: line
\* are not collected
ParseLineFirstOnly(acc, line) ==
    LET clean_line == Strip(line)
        content == Strip(AfterFirst(clean_line, <<":">>))
    IN IF StartsWith(clean_line, KwStatus)
       THEN ParseState(Remove(Upper(content), {"[", "]", "."}),
                       acc.evidence_lines, FALSE)
       ELSE IF StartsWith(clean_line, KwEvidence)
       THEN ParseState(acc.status,
                       IF Len(content) > 0 THEN Append(acc.evidence_lines, content)
                       ELSE acc.evidence_lines,
                       TRUE)
       ELSE acc

\* one pass of the loop body over a line of the response
ParseLine(acc, line) ==
    LET clean_line == Strip(line)
        content == Strip(AfterFirst(clean_line, <<":">>))
    IN IF StartsWith(clean_line, KwStatus)
       THEN ParseState(Remove(Upper(content), {"[", "]", "."}),
                       acc.evidence_lines, FALSE)
       ELSE IF StartsWith(clean_line, KwEvidence)
       THEN ParseState(acc.status,
                       IF Len(content) > 0 THEN Append(acc.evidence_lines, content)
                       ELSE acc.evidence_lines,
                       TRUE)
       ELSE IF acc.parsing_evidence
       THEN ParseState(acc.status, Append(acc.evidence_lines, clean_line), TRUE)
       ELSE acc

RECURSIVE ParseLines(_, _)
ParseLines(acc, lines) ==
    IF lines = <<>> THEN acc
    ELSE ParseLines(ParseLine(acc, Head(lines)), Tail(lines))

\* the parse of verification_response: status and evidence_text
ParseResponse(response) ==
    LET acc == ParseLines(ParseState(StUnknown, <<>>, FALSE),
                          Split(response, <<"\n">>))
    IN [status |-> acc.status,
        evidence_text |-> Strip(Join(acc.evidence_lines, <<"\n">>))]

\* ------------------------------------------------------------ the parser of the tests
\* the loop body of the test's parse_response with a Status: line that
\* leaves parsing_evidence as it is
TestParseLineNoReset(st, evidence_lines, parsing_evidence, line) ==
    LET clean_line == Strip(line)
    IN IF StartsWith(clean_line, KwStatus)
       THEN <<Remove(Upper(Strip(AfterFirst(clean_line, <<":">>))), {"[", "]", "."}),
              evidence_lines, parsing_evidence>>
       ELSE IF StartsWith(clean_line, KwEvidence)
       THEN IF Strip(AfterFirst(clean_line, <<":">>)) # <<>>
            THEN <<st, Append(evidence_lines, Strip(AfterFirst(clean_line, <<":">>))), TRUE>>
            ELSE <<st, evidence_lines, TRUE>>
       ELSE IF parsing_evidence
       THEN <<st, Append(evidence_lines, clean_line), parsing_evidence>>
       ELSE <<st, evidence_lines, parsing_evidence>>

\* the loop body of the test's parse_response: the new values of status,
\* evidence_lines and parsing_evidence after one line
TestParseLine(st, evidence_lines, parsing_evidence, line) ==
    LET clean_line == Strip(line)
    IN IF StartsWith(clean_line, KwStatus)
       THEN <<Remove(Upper(Strip(AfterFirst(clean_line, <<":">>))), {"[", "]", "."}),
              evidence_lines, FALSE>>
       ELSE IF StartsWith(clean_line, KwEvidence)
       THEN IF Strip(AfterFirst(clean_line, <<":">>)) # <<>>
            THEN <<st, Append(evidence_lines, Strip(AfterFirst(clean_line, <<":">>))), TRUE>>
            ELSE <<st, evidence_lines, TRUE>>
       ELSE IF parsing_evidence
       THEN <<st, Append(evidence_lines, clean_line), parsing_evidence>>
       ELSE <<st, evidence_lines, parsing_evidence>>

\* the test's loop from line n of lines on
RECURSIVE TestParseFrom(_, _, _)
TestParseFrom(locals, lines, n) ==
    IF n > Len(lines) THEN locals
    ELSE TestParseFrom(TestParseLine(locals[1], locals[2], locals[3], lines[n]),
                       lines, n + 1)

\* parse_response of tests/test_fact_check_parser.py: the pair returned
parse_response(response) ==
    LET locals == TestParseFrom(<<StUnknown, <<>>, FALSE>>,
                                Split(response, <<"\n">>), 1)
    IN <<locals[1], Strip(Join(locals[2], <<"\n">>))>>

\* the fallback looking for VERIFIED before VERIFIED_SYNTHESIS
KeywordFallbackVerifiedFirst(st, response) ==
    IF st # StUnknown THEN st
    ELSE IF Contains(response, StVerified) THEN StVerified
    ELSE IF Contains(response, StVerifiedSynthesis) THEN StVerifiedSynthesis
    ELSE IF Contains(response, StUnsupported) THEN StUnsupported
    ELSE IF Contains(response, StHypothesis) THEN StHypothesis
    ELSE st

\* the fallback when no Status: line set the status
KeywordFallback(st, response) ==
    IF st # StUnknown THEN st
    ELSE IF Contains(response, StVerifiedSynthesis) THEN StVerifiedSynthesis
    ELSE IF Contains(response, StVerified) THEN StVerified
    ELSE IF Contains(response, StUnsupported) THEN StUnsupported
    ELSE IF Contains(response, StHypothesis) THEN StHypothesis
    ELSE st

\* a status that repeats the prompt's options is left as it is
PipeKept(st) == st

\* a status that repeats the prompt's options
PipeDefault(st) == IF Contains(st, <<"|">>) THEN StHypothesis ELSE st

\* the safeguard without its elif branch: evidence citing the agents' own
\* reflection or discussion passes
SafeguardNoSelfCheck(st, evidence) ==
    LET clean_evidence == Strip(Lower(evidence))
    IN IF ~StartsWith(st, StVerified) THEN st
       ELSE IF \/ Len(evidence) = 0
               \/ Len(evidence) < MinEvidenceLen
               \/ EndsWith(clean_evidence, KwQuotes)
       THEN StUnsupported
       ELSE st

\* the safeguard checking only for missing evidence_text
SafeguardEmptyOnly(st, evidence) ==
    IF StartsWith(st, StVerified) /\ Len(evidence) = 0
    THEN StUnsupported
    ELSE st

\* the safeguard against a VERIFIED status without proof
Safeguard(st, evidence) ==
    LET clean_evidence == Strip(Lower(evidence))
    IN IF ~StartsWith(st, StVerified) THEN st
       ELSE IF \/ Len(evidence) = 0
               \/ Len(evidence) < MinEvidenceLen
               \/ EndsWith(clean_evidence, KwQuotes)
       THEN StUnsupported
       ELSE IF \/ StartsWith(clean_evidence, KwReflection)
               \/ StartsWith(clean_evidence, KwDiscussion)
               \/ Contains(clean_evidence, KwObservations)
       THEN StUnsupported
       ELSE st

\* the status before the safeguard: parse, fallback, pipe default
StatusBeforeSafeguard(response) ==
    PipeDefault(KeywordFallback(ParseResponse(response).status, response))

\* the final status of the fact check
FinalStatus(response) ==
    Safeguard(StatusBeforeSafeguard(response), ParseResponse(response).evidence_text)

\* every verdict is kept
DiscardsNothing(st) == FALSE

\* if status == "UNSUPPORTED": return
Discards(st) == st = StUnsupported

\* prefix + "Discussion (a vs b): " + discussion_result
MemoryText(st, name, other, result) ==
    (IF Contains(st, StHypothesis) THEN TagHypothesis ELSE <<>>)
    \o <<"D", "i", "s", "c", "u", "s", "s", "i", "o", "n", " ", "(">> \o name \o <<" ", "v", "s", " ">> \o other \o <<")", ":", " ">> \o result

\* joint_statement_text
JointStatement(result) ==
    IF Contains(result, KwJoint)
    THEN Strip(AfterFirst(result, KwJoint))
    ELSE result

\* ------------------------------------------------------------ the inputs of a discussion
SelfName == <<"D", "r", ".", " ", "A", "n", "a", "l", "y", "s", "i", "s">>
OtherName == <<"D", "r", ".", " ", "V", "i", "s", "i", "o", "n">>

\* what the resolution call answers with
DiscussionResults ==
    {<<"R", "e", "s", "p", "o", "n", "s", "e", ":", " ", "a", "g", "r", "e", "e", "d", ".", "\n", "J", "o", "i", "n", "t", " ", "S", "t", "a", "t", "e", "m", "e", "n", "t", ":", " ", "P", "M", "2", ".", "5", " ", "r", "a", "i", "s", "e", "s", " ", "a", "s", "t", "h", "m", "a", " ", "r", "i", "s", "k", ".">>,
     <<"P", "M", "2", ".", "5", " ", "m", "a", "y", " ", "r", "a", "i", "s", "e", " ", "a", "s", "t", "h", "m", "a", " ", "r", "i", "s", "k", ".">>}

StatusLines ==
    {<<"S", "t", "a", "t", "u", "s", ":", " ", "[", "V", "E", "R", "I", "F", "I", "E", "D", "]">>,
     <<"S", "t", "a", "t", "u", "s", ":", " ", "v", "e", "r", "i", "f", "i", "e", "d", "_", "s", "y", "n", "t", "h", "e", "s", "i", "s", ".">>,
     <<"S", "t", "a", "t", "u", "s", ":", " ", "U", "N", "S", "U", "P", "P", "O", "R", "T", "E", "D">>,
     <<"S", "t", "a", "t", "u", "s", ":", " ", "H", "Y", "P", "O", "T", "H", "E", "S", "I", "S">>,
     <<"S", "t", "a", "t", "u", "s", ":", " ", "[", "V", "E", "R", "I", "F", "I", "E", "D", " ", "|", " ", "U", "N", "S", "U", "P", "P", "O", "R", "T", "E", "D", "]">>,
     <<"S", "t", "a", "t", "u", "s", ":", " ", "P", "a", "r", "t", "i", "a", "l", "l", "y", " ", "v", "e", "r", "i", "f", "i", "e", "d">>}

EvidenceLines ==
    {<<"E", "v", "i", "d", "e", "n", "c", "e", ":">>,
     <<"E", "v", "i", "d", "e", "n", "c", "e", ":", " ", "\"", "P", "M", "2", ".", "5", "\"">>,
     <<"E", "v", "i", "d", "e", "n", "c", "e", ":", " ", "E", "x", "a", "c", "t", " ", "q", "u", "o", "t", "e", "s", ":">>,
     <<"E", "v", "i", "d", "e", "n", "c", "e", ":", " ", "\"", "P", "M", "2", ".", "5", " ", "r", "a", "i", "s", "e", "d", " ", "a", "s", "t", "h", "m", "a", " ", "v", "i", "s", "i", "t", "s", "\"">>,
     <<"E", "v", "i", "d", "e", "n", "c", "e", ":", " ", "R", "e", "f", "l", "e", "c", "t", "i", "o", "n", ":", " ", "P", "M", "2", ".", "5", " ", "m", "a", "t", "t", "e", "r", "s">>,
     <<"E", "v", "i", "d", "e", "n", "c", "e", ":", " ", "[">>}

BracketEvidence == <<"E", "v", "i", "d", "e", "n", "c", "e", ":", " ", "[">>

TailLine == <<" ", " ", "-", " ", "\"", "V", "i", "s", "i", "t", "s", " ", "r", "o", "s", "e", " ", "1", "2", "%", "\"">>

ProseLines ==
    {<<"T", "h", "e", " ", "c", "l", "a", "i", "m", " ", "i", "s", " ", "U", "N", "S", "U", "P", "P", "O", "R", "T", "E", "D", ",", " ", "n", "o", "t", " ", "V", "E", "R", "I", "F", "I", "E", "D">>,
     <<"A", " ", "H", "Y", "P", "O", "T", "H", "E", "S", "I", "S", " ", "a", "t", " ", "b", "e", "s", "t">>,
     <<"N", "o", "t", " ", "a", " ", "H", "Y", "P", "O", "T", "H", "E", "S", "I", "S", ":", " ", "U", "N", "S", "U", "P", "P", "O", "R", "T", "E", "D">>,
     <<"V", "E", "R", "I", "F", "I", "E", "D", "_", "S", "Y", "N", "T", "H", "E", "S", "I", "S", " ", "o", "f", " ", "b", "o", "t", "h", " ", "p", "a", "p", "e", "r", "s">>,
     <<"N", "o", " ", "v", "e", "r", "d", "i", "c", "t">>,
     <<>>}

Lines(ls) == Join(ls, <<"\n">>)

\* a status line that words its verdict freely
LooseStatusLine == <<"S", "t", "a", "t", "u", "s", ":", " ", "H", "y", "p", "o", "t", "h", "e", "s", "i", "s", " ", "(", "w", "e", "a", "k", ")">>

\* the status lines that claim verification
VerifiedLines ==
    {<<"S", "t", "a", "t", "u", "s", ":", " ", "[", "V", "E", "R", "I", "F", "I", "E", "D", "]">>,
     <<"S", "t", "a", "t", "u", "s", ":", " ", "v", "e", "r", "i", "f", "i", "e", "d", "_", "s", "y", "n", "t", "h", "e", "s", "i", "s", ".">>}

\* evidence citing the discussion or the observations handed to the checker
SelfCitingEvidence ==
    {<<"E", "v", "i", "d", "e", "n", "c", "e", ":", " ", "d", "i", "s", "c", "u", "s", "s", "i", "o", "n", ":", " ", "w", "e", " ", "a", "g", "r", "e", "e", "d", " ", "o", "n", " ", "P", "M", "2", ".", "5">>,
     <<"E", "v", "i", "d", "e", "n", "c", "e", ":", " ", "B", "a", "s", "e", "d", " ", "o", "n", " ", "t", "h", "e", " ", "p", "r", "o", "v", "i", "d", "e", "d", " ", "o", "b", "s", "e", "r", "v", "a", "t", "i", "o", "n", "s", ",", " ", "P", "M", "2", ".", "5", " ", "m", "a", "t", "t", "e", "r", "s">>}

\* a quotation long enough to count as proof
QuotedEvidence == <<"E", "v", "i", "d", "e", "n", "c", "e", ":", " ", "\"", "P", "M", "2", ".", "5", " ", "r", "a", "i", "s", "e", "d", " ", "a", "s", "t", "h", "m", "a", " ", "v", "i", "s", "i", "t", "s", "\"">>

\* the response of test_multiline_evidence
TestMultilineResponse == <<"S", "t", "a", "t", "u", "s", ":", " ", "[", "V", "E", "R", "I", "F", "I", "E", "D", "]", "\n", "E", "v", "i", "d", "e", "n", "c", "e", ":", " ", "[", "\n", " ", " ", "-", " ", "\"", "Q", "u", "o", "t", "e", " ", "1", " ", "i", "s", " ", "h", "e", "r", "e", ".", "\"", "\n", " ", " ", "-", " ", "\"", "Q", "u", "o", "t", "e", " ", "2", " ", "i", "s", " ", "h", "e", "r", "e", ".", "\"", "\n", "]">>

\* the response of test_singleline_evidence
TestSinglelineResponse == <<"S", "t", "a", "t", "u", "s", ":", " ", "V", "E", "R", "I", "F", "I", "E", "D", "\n", "E", "v", "i", "d", "e", "n", "c", "e", ":", " ", "\"", "S", "i", "n", "g", "l", "e", " ", "l", "i", "n", "e", " ", "q", "u", "o", "t", "e", ".", "\"", " ">>

TestResponses == {TestMultilineResponse, TestSinglelineResponse}

\* the texts the tests look for in the evidence
TxtQuote1 == <<"Q", "u", "o", "t", "e", " ", "1", " ", "i", "s", " ", "h", "e", "r", "e">>
TxtQuote2 == <<"Q", "u", "o", "t", "e", " ", "2", " ", "i", "s", " ", "h", "e", "r", "e">>
TxtSingleQuote == <<"S", "i", "n", "g", "l", "e", " ", "l", "i", "n", "e", " ", "q", "u", "o", "t", "e">>

\* what the fact-check call answers with
Responses ==
    ProseLines \cup StatusLines
    \cup {Lines(<<st, ev>>) : st \in StatusLines, ev \in EvidenceLines}
    \cup {Lines(<<st, BracketEvidence, TailLine>>) : st \in StatusLines}
    \cup {Lines(<<ev, TailLine, st>>) : st \in StatusLines, ev \in {BracketEvidence}}
    \cup {Lines(<<BracketEvidence, st, TailLine>>) : st \in StatusLines}
    \cup {LooseStatusLine, Lines(<<LooseStatusLine, QuotedEvidence>>)}
    \cup {Lines(<<st, ev>>) : st \in VerifiedLines, ev \in SelfCitingEvidence}
    \cup {Lines(<<pr, ev>>) : pr \in ProseLines, ev \in EvidenceLines}
    \cup TestResponses

\* which write-through of a commit fails: none, the database inserts, or
\* the write of the discussions file
StoreOutcomes == {"ok", "db", "file"}

\* the paper memory an agent holds before the discussion
PaperMemory(oid) == MemoryObject(oid, <<"P", "a", "p", "e", "r", ":", " ", "P", "M", "2", ".", "5", " ", "a", "n", "d", " ", "a", "s", "t", "h", "m", "a">>, 0, 5, TRUE, 0)

\* ------------------------------------------------------------ discuss_with
\* the locals of a call that is not running
NoText == <<>>

\* one add_memory on an agent's stream: the record is rated and embedded by
\* that stream's own LLM, appended, written to the cache and to the store
AddMemoryTo(agent, oid, description, time, rating, dbOK) ==
    LET m == NewMemory(oid, description, time, rating, TRUE)
    IN [mems  |-> AppendLocal(streams[agent], m),
        doc   |-> HsetStep(redis, TRUE, {}, m).store,
        rows  |-> PersistStep(db, dbOK, agentMemories[agent], m).rows]

\* Database.save_report: demo mode returns, a failed insert is printed
SaveReport(mode, ok, rows, agent_name, report_type, content) ==
    IF mode # "pool" \/ ~ok THEN rows
    ELSE Append(rows, [agent_name |-> agent_name, report_type |-> report_type,
                       content |-> content])

\* the entry appended to living_discussions.json; any exception of the
\* read-append-write is caught and printed
SaveDiscussion(ok, entries, time, result, st) ==
    IF ~ok THEN entries
    ELSE Append(entries,
                [date |-> time, participants |-> <<SelfName, OtherName>>,
                 full_transcript |-> result,
                 joint_statement |-> JointStatement(result),
                 fact_check_status |-> st])

\* discuss_with up to the parsed fact check: skipped when neither agent has
\* a recent memory; otherwise the resolution and the verification are
\* generated and the verification is parsed into the final status
Debate(result, response) ==
    /\ gpc = "idle"
    /\ rounds < MaxRounds
    /\ rounds' = rounds + 1
    /\ IF GetRecent(streams.self, 5) = <<>> /\ GetRecent(streams.other, 5) = <<>>
       THEN UNCHANGED <<gpc, discussion_result, verification_response, status,
                        evidence_text>>
       ELSE /\ gpc' = "checked"
            /\ discussion_result' = result
            /\ verification_response' = response
            /\ evidence_text' = ParseResponse(response).evidence_text
            /\ status' = FinalStatus(response)
    /\ UNCHANGED <<streams, agentMemories, agentReports, discussionsFile, verdicts>>
    /\ UNCHANGED <<memVars, protoVars, auxVars>>

\* status == "UNSUPPORTED": the call returns
Discard ==
    /\ gpc = "checked"
    /\ Discards(status)
    /\ gpc' = "idle"
    /\ verdicts' = Append(verdicts, [time |-> rounds, status |-> status])
    /\ discussion_result' = NoText /\ verification_response' = NoText
    /\ status' = StUnknown /\ evidence_text' = NoText
    /\ UNCHANGED <<rounds, streams, agentMemories, agentReports, discussionsFile>>
    /\ UNCHANGED <<memVars, protoVars, auxVars>>

\* any other status: the tagged text goes to both streams, the transcript to
\* agent_reports and to the discussions file
Commit(ratingSelf, ratingOther, outcome) ==
    /\ gpc = "checked"
    /\ ~Discards(status)
    /\ outcome = "db" => db = "pool"
    /\ LET memory_text == MemoryText(status, SelfName, OtherName, discussion_result)
           mine == AddMemoryTo("self", nextOid, memory_text, rounds,
                               ratingSelf, outcome # "db")
           theirs == AddMemoryTo("other", nextOid + 1, memory_text, rounds,
                                 ratingOther, outcome # "db")
       IN /\ streams' = [self |-> mine.mems, other |-> theirs.mems]
          /\ redisStore' = redisStore \cup mine.doc \cup theirs.doc
          /\ agentMemories' = [self |-> mine.rows, other |-> theirs.rows]
          /\ agentReports' =
                IF db = "none" THEN agentReports
                ELSE SaveReport(db, outcome # "db", agentReports,
                                SelfName \o <<" ", "&", " ">> \o OtherName,
                                "discussion", discussion_result)
          /\ discussionsFile' = SaveDiscussion(outcome # "file", discussionsFile,
                                               rounds, discussion_result, status)
    /\ nextOid' = nextOid + 2
    /\ gpc' = "idle"
    /\ verdicts' = Append(verdicts, [time |-> rounds, status |-> status])
    /\ discussion_result' = NoText /\ verification_response' = NoText
    /\ status' = StUnknown /\ evidence_text' = NoText
    /\ UNCHANGED <<rounds, redis, db, memories, dbRows, addFaults, ret>>
    /\ UNCHANGED <<protoVars, auxVars>>

\* no discussion is running
GateIdle ==
    /\ gpc = "idle" /\ rounds = 0
    /\ streams = [self |-> <<>>, other |-> <<>>]
    /\ agentMemories = [self |-> <<>>, other |-> <<>>]
    /\ agentReports = <<>> /\ discussionsFile = <<>>
    /\ discussion_result = NoText /\ verification_response = NoText
    /\ status = StUnknown /\ evidence_text = NoText
    /\ verdicts = <<>>

\* two agents after the papers of a batch were read (or none was), sharing
\* one cache connection and one database
InitGate ==
    /\ redis \in BOOLEAN /\ db \in {"demo", "pool"}
    /\ dbRows = <<>> /\ memories = <<>> /\ redisStore = {}
    /\ nextOid = 1 /\ addFaults = 0 /\ ret = NoRet
    /\ ProtoIdle
    /\ AuxIdle
    /\ gpc = "idle" /\ rounds = 0
    /\ \E held \in BOOLEAN :
         streams = [self |-> IF held THEN <<PaperMemory(101)>> ELSE <<>>,
                    other |-> IF held THEN <<PaperMemory(102)>> ELSE <<>>]
    /\ agentMemories = [self |-> <<>>, other |-> <<>>]
    /\ agentReports = <<>> /\ discussionsFile = <<>>
    /\ discussion_result = NoText /\ verification_response = NoText
    /\ status = StUnknown /\ evidence_text = NoText
    /\ verdicts = <<>>

NextGate ==
    \/ \E d \in DiscussionResults, r \in Responses : Debate(d, r)
    \/ Discard
    \/ \E rs \in RatingTexts, ro \in RatingTexts, o \in StoreOutcomes :
         Commit(rs, ro, o)

SpecGate == InitGate /\ [][NextGate]_vars

\* ------------------------------------------------------------ the protocol specification
InitProto == ProtoInit /\ MemIdle /\ GateIdle /\ AuxIdle

NextProto ==
    \/ \E t \in Tasks : Invoke(t)
    \/ \E l \in Lookups, a \in Apis, s \in Stores, x \in DraftAnswers(task) :
         DraftStep(l, a, s, x)
    \/ \E l \in Lookups, a \in Apis, s \in Stores, x \in AuditAnswers :
         AuditStep(l, a, s, x)
    \/ AcceptStep
    \/ \E l \in Lookups, a \in Apis, s \in Stores, x \in RefineAnswers(task) :
         RefineStep(l, a, s, x)

SpecProto == InitProto /\ [][NextProto]_vars

\* ------------------------------------------------------------ the ranking specification
\* one stream without cache and store, items ingested with any of the
\* ratings at any of the clock values, then ranked
InitRank == MemIdle /\ ProtoIdle /\ GateIdle /\ AuxIdle

NextRank ==
    \/ \E t \in RankTimes, r \in RankRatings : Ingest(t, r)
    \/ \E n \in 1 .. MaxIngest : GetRecentCall(n)
    \/ \E k \in 1 .. MaxIngest : RetrieveImportantCall(k)

SpecRank == InitRank /\ [][NextRank]_vars

\* ------------------------------------------------------------ the thread specification
\* a batch: every worker makes one add_memory or one get_recent call on the
\* same stream, whose cache connection exists or not
InitThreads ==
    /\ redis \in BOOLEAN /\ db \in {"none", "demo"}
    /\ dbRows = <<>> /\ memories = <<>> /\ redisStore = {}
    /\ nextOid = 1 /\ addFaults = 0 /\ ret = NoRet
    /\ ProtoIdle /\ GateIdle /\ ThreadIdle /\ CacheIdle /\ RegistryIdle /\ IndexIdle /\ GraphIdle

NextThreads ==
    \/ \E w \in Workers : StartAdd(w)
    \/ \E w \in Workers : StartRecent(w)
    \/ \E w \in Workers : Acquire(w)
    \/ \E w \in Workers : AppendStep(w)
    \/ \E w \in Workers : SortStep(w)
    \/ \E w \in Workers : Release(w)
    \/ \E w \in Workers : CacheAdd(w, TRUE)
    \/ \E w \in Workers : PersistAdd(w, TRUE)

SpecThreads == InitThreads /\ [][NextThreads]_vars

\* ------------------------------------------------------------ the tier specification
\* concurrent add_memory calls on a stream with or without cache connection
\* and durable store, whose writes work or fail; a worker that takes no
\* further step has crashed where it stands
MaxWriters == 2
Writers == 1 .. MaxWriters

InitTiers ==
    /\ redis \in BOOLEAN /\ db \in {"none", "pool"}
    /\ dbRows = <<>> /\ memories = <<>> /\ redisStore = {}
    /\ nextOid = 1 /\ addFaults = 0 /\ ret = NoRet
    /\ ProtoIdle /\ GateIdle /\ ThreadIdle /\ CacheIdle /\ RegistryIdle /\ IndexIdle /\ GraphIdle

NextTiers ==
    \/ \E w \in Writers : StartAdd(w)
    \/ \E w \in Writers : Acquire(w)
    \/ \E w \in Writers : AppendStep(w)
    \/ \E w \in Writers : Release(w)
    \/ \E w \in Writers, ok \in BOOLEAN : CacheAdd(w, ok)
    \/ \E w \in Writers, ok \in BOOLEAN : PersistAdd(w, ok)

SpecTiers == InitTiers /\ [][NextTiers]_vars

\* ------------------------------------------------------------ the graph specification
\* worker threads that take their papers through the knowledge-graph
\* update
InitGraph == MemIdle /\ ProtoIdle /\ GateIdle /\ AuxIdle

NextGraph ==
    \/ \E u \in Updaters, title \in PaperTitles, n \in 1 .. 2 : StartUpdate(u, title, n)
    \/ \E u \in Updaters : AcquireMatrix(u)
    \/ \E u \in Updaters : ReadGraph(u)
    \/ \E u \in Updaters : WriteGraph(u)
    \/ \E u \in Updaters : ReleaseMatrix(u)

SpecGraph == InitGraph /\ [][NextGraph]_vars

\* ------------------------------------------------------------ the lifetime specification
\* rows of agent_memories an earlier process left behind
EarlierRows ==
    {<<>>, <<DbRow(MemoryObject(0, <<"memory", 0>>, 1, 5, TRUE, 1))>>}

\* a process whose stream is constructed over a store that may hold rows of
\* an earlier run, and whose collaborators work
InitLifetime ==
    /\ redis \in BOOLEAN
    /\ db \in {"demo", "pool"}
    /\ dbRows \in EarlierRows
    /\ memories = LoadFromDb(LoadMemories(db, TRUE, dbRows), 1)
    /\ redisStore = {} /\ nextOid = 1 /\ addFaults = 0 /\ ret = NoRet
    /\ ProtoIdle /\ GateIdle /\ AuxIdle

NextLifetime ==
    \/ \E t \in Times, r \in RatingTexts :
         AddMemory(DescriptionOf(nextOid), t, r, TRUE, TRUE, TRUE)
    \/ \E ok \in BOOLEAN : LoadFromDbCall(ok)
    \/ \E n \in Ns : GetRecentCall(n)
    \/ \E k \in Ns : RetrieveImportantCall(k)
    \/ \E t \in RetrieveTimes, k \in TopKs, f \in Faults : RetrieveCall(t, k, f)

SpecLifetime == InitLifetime /\ [][NextLifetime]_vars

\* ------------------------------------------------------------ the restart specification
\* a new process constructs the Database and the MemoryStream over the table
\* the earlier processes left: connecting fails (demo mode) or works, and
\* the SELECT of load_memories fails or works; the list starts empty and
\* receives the loaded rows
Restart(mode, ok) ==
    /\ db' = mode
    /\ memories' = <<>> \o LoadFromDb(LoadMemories(mode, ok, dbRows), 1)
    /\ ret' = Ret("__init__", 0, <<>>, 0,
                  IF mode = "pool" /\ ok THEN "none" ELSE "unreachable",
                  <<>>, FALSE)
    /\ UNCHANGED <<redis, redisStore, dbRows, nextOid, addFaults>>
    /\ UNCHANGED <<protoVars, gateVars, auxVars>>

\* what the rating call gives: a number, nothing, prose, or an exception
RestartRatings == {"8", "", "high", GenerateRaised}

\* the outcomes of the rating call that are no number
UnratedOutcomes == {"", "high", GenerateRaised}

InitRestart ==
    /\ redis \in BOOLEAN
    /\ db \in {"demo", "pool"}
    /\ dbRows = <<>> /\ memories = <<>>
    /\ redisStore = {} /\ nextOid = 1 /\ addFaults = 0 /\ ret = NoRet
    /\ ProtoIdle /\ GateIdle /\ AuxIdle

NextRestart ==
    \/ \E t \in Times, r \in RestartRatings, p \in BOOLEAN :
         AddMemory(DescriptionOf(nextOid), t, r, TRUE, TRUE, p)
    \/ \E mode \in {"demo", "pool"}, ok \in BOOLEAN : Restart(mode, ok)
    \/ \E n \in Ns : GetRecentCall(n)
    \/ \E k \in Ns : RetrieveImportantCall(k)

SpecRestart == InitRestart /\ [][NextRestart]_vars

\* ------------------------------------------------------------ the cache specification
\* one LLM, constructed with or without a cache connection, called with
\* any prompt at any temperature while the cache and the API work or fail
InitLlm ==
    /\ ProtoInit /\ MemIdle /\ GateIdle
    /\ ThreadIdle /\ CacheIdle /\ RegistryIdle /\ IndexIdle /\ GraphIdle

NextLlm ==
    \/ \E sm \in SystemMessages, pr \in Prompts, t \in Temperatures,
          l \in BOOLEAN, a \in Apis, c \in Completions, st \in Stores :
         Generate(sm, pr, t, l, a, c, st)
    \/ \E k \in CacheKeys : Expire(k)

SpecLlm == InitLlm /\ [][NextLlm]_vars

\* ------------------------------------------------------------ the naming specification
\* streams constructed for any of the names over one cache, each writing
\* keys
InitRegistry ==
    /\ MemIdle /\ ProtoIdle /\ GateIdle
    /\ ThreadIdle /\ CacheIdle /\ RegistryIdle /\ IndexIdle /\ GraphIdle

NextRegistry ==
    \/ \E n \in AgentNames : Construct(n)
    \/ \E n \in AgentNames, u \in Uuids : WriteKey(n, u)

SpecRegistry == InitRegistry /\ [][NextRegistry]_vars

\* ------------------------------------------------------------ the index specification
\* streams constructed one after another or at once, for the same or for
\* different names, over a cache that may already hold the index of the
\* first name; the checks and the creates work or fail; constructed streams
\* write keys
InitIndex ==
    /\ MemIdle /\ ProtoIdle /\ GateIdle /\ ThreadIdle /\ CacheIdle /\ IndexIdle /\ GraphIdle
    /\ constructed = {} /\ hashKeys = {}
    /\ indexes \in {{}, {[index_name |-> IndexName(SafeName(n)),
                          prefix |-> KeyPrefix(SafeName(n))] : n \in BuildNames}}

NextIndex ==
    \/ \E b \in Builders, n \in BuildNames : StartBuild(b, n)
    \/ \E b \in Builders, ok \in BOOLEAN : CheckIndex(b, ok)
    \/ \E b \in Builders, ok \in BOOLEAN : CreateIndex(b, ok)
    \/ \E n \in BuildNames, u \in Uuids : WriteKey(n, u)

SpecIndex == InitIndex /\ [][NextIndex]_vars

\* ------------------------------------------------------------ the MemoryStream specification
\* after MemoryStream.__init__: the cache connection exists or not, the
\* durable store is absent, in demo mode or pooled; a pooled store's rows
\* are loaded into the in-process list
Init ==
    /\ redis \in BOOLEAN
    /\ db \in {"none", "demo", "pool"}
    /\ dbRows = <<>>
    /\ memories = LoadFromDb(dbRows, 1)
    /\ redisStore = {}
    /\ nextOid = 1
    /\ addFaults = 0
    /\ ret = NoRet
    /\ ProtoIdle
    /\ GateIdle
    /\ AuxIdle

Next ==
    \/ \E t \in Times, r \in RatingTexts,
          e \in BOOLEAN, h \in BOOLEAN, p \in BOOLEAN :
         AddMemory(DescriptionOf(nextOid), t, r, e, h, p)
    \/ \E n \in Ns : GetRecentCall(n)
    \/ \E k \in Ns : RetrieveImportantCall(k)
    \/ \E t \in RetrieveTimes, k \in TopKs, f \in Faults : RetrieveCall(t, k, f)

Spec == Init /\ [][Next]_vars


\* ------------------------------------------------------------ claims: MemoryStream
Min(a, b) == IF a < b THEN a ELSE b

\* the position of a record of the in-process list (oids are unique)
Pos(m) == CHOOSE i \in 1 .. Len(memories) : memories[i] = m

\* the n records appended last, newest first
MostRecentlyAdded(mems, n) ==
    [i \in 1 .. Min(n, Len(mems)) |-> mems[Len(mems) - i + 1]]

\* v is ordered by creation_time descending, equal times in insertion order
DescendingByTime(v) ==
    \A i, j \in 1 .. Len(v) :
        i < j => /\ v[i].creation_time >= v[j].creation_time
                 /\ v[i].creation_time = v[j].creation_time => Pos(v[i]) < Pos(v[j])

StrictlyIncreasingTimes(mems) ==
    \A i, j \in 1 .. Len(mems) :
        i < j => mems[i].creation_time < mems[j].creation_time

C2_RetrieveFallsBack ==
    (ret.op = "retrieve" /\ (~redis \/ ret.fault # "none")) =>
        /\ ~ret.raised
        /\ ret.value = GetRecent(memories, ret.arg)

\* C2 witness: the cache holds documents a search could have answered with,
\* the search raised, and retrieve returned the two most recent records
C2_Witness ==
    /\ ret.op = "retrieve" /\ redis /\ ret.fault = "search"
    /\ Indexed(redisStore) # {}
    /\ Len(ret.value) = 2
    /\ ~ret.raised

\* C3: every add_memory call returns normally and appends exactly one
\* record carrying the call's description and time, whatever the importance
\* call, the embedding provider, the cache write and the store write did.
C3_AddMemoryAppendsOne ==
    [][nextOid' # nextOid =>
         /\ ~ret'.raised
         /\ Len(memories') = Len(memories) + 1
         /\ SubSeq(memories', 1, Len(memories)) = memories
         /\ memories'[Len(memories')].description = ret'.description
         /\ memories'[Len(memories')].creation_time = ret'.time]_vars

\* C3 witness: an add_memory call in which the rating, the embedding, the
\* cache write and the store write all failed has returned
C3_Witness ==
    /\ ret.op = "add_memory" /\ ~ret.raised
    /\ redis /\ db = "pool"
    /\ Len(memories) = 1
    /\ memories[1].importance = 5 /\ ~memories[1].embedding
    /\ redisStore = {} /\ dbRows = <<>>
    /\ addFaults = 4

\* ------------------------------------------------------------ claims: the protocol
\* the audit call of the current invocation has returned
Audited == \E i \in 1 .. Len(trail) : trail[i] = "AUDITED"

\* the draft call of the current invocation has returned a usable draft
Drafted == \E i \in 1 .. Len(trail) : trail[i] = "DRAFTED"

IsPrefix(a, b) == Len(a) <= Len(b) /\ a = SubSeq(b, 1, Len(a))

\* C5: in extract_claims and design_study, when the critique contains PASS
\* the refine step is never called and the output is the draft (for
\* extract_claims the draft after the deterministic post-processing).
C5_PassReturnsDraft ==
    (task \in {"matrix", "genesis"} /\ Audited /\ Contains(critique, TxtPASS)) =>
        /\ calls.refine = 0
        /\ pc \in {"audited", "accepted"}
        /\ pc = "accepted" => final = FinalOf(task, draft)

\* C5 witness: extract_claims accepted a draft on the critique "PASS." and
\* returned it with the severity of its causal/observational record raised
C5_Witness ==
    /\ task = "matrix" /\ pc = "accepted" /\ critique = TxtPassDot
    /\ draft = JsonList(<<EntryCausalObs>>)
    /\ final = JsonList(<<[EntryCausalObs EXCEPT !.gap_severity = WHigh]>>)
    /\ calls = [draft |-> 1, audit |-> 1, refine |-> 0]

\* C6: in extract_claims and design_study, when the critique does not
\* contain PASS the refine step is called exactly once, the audit is never
\* called a second time, and the output is what refine returned
\* (post-processed for extract_claims).
C6_NonPassRefinesOnce ==
    /\ calls.audit <= 1
    /\ (task \in {"matrix", "genesis"} /\ Audited /\ ~Contains(critique, TxtPASS)
        /\ pc \in Terminal) =>
           /\ calls.refine = 1
           /\ calls.audit = 1
           /\ pc = "accepted" => final = FinalOf(task, refined)

\* C6 witness: design_study was refined once after a failing review and
\* returned the finalized protocol, no second review having been made
C6_Witness ==
    /\ task = "genesis" /\ pc = "accepted" /\ critique = TxtFail
    /\ draft = TxtDraftA /\ final = TxtFinalA
    /\ calls = [draft |-> 1, audit |-> 1, refine |-> 1]

\* C7 as stated: an audit that returns the empty string counts as passed:
\* the draft is the output and refine is not called.
C7_EmptyAuditPasses ==
    (Audited /\ critique = TxtEmpty /\ pc \in Terminal) =>
        /\ calls.refine = 0
        /\ pc = "accepted" /\ final = FinalOf(task, draft)

\* C7 amended: an audit that returns the empty string counts as not passed
\* (the empty string does not contain PASS): the refine step is called
\* exactly once and its result, post-processed for extract_claims, is the
\* output.
C7_EmptyAuditRefines ==
    /\ (Audited /\ critique = TxtEmpty /\ pc # "audited") => calls.refine = 1
    /\ (Audited /\ critique = TxtEmpty /\ pc = "accepted") =>
           final = FinalOf(task, refined)

\* C7 witness: extract_claims got the empty string from the audit, called
\* refine and returned the refined list, not the draft
C7_Witness ==
    /\ task = "matrix" /\ pc = "accepted" /\ Audited /\ critique = TxtEmpty
    /\ draft = JsonList(<<EntryCausalObs>>)
    /\ calls.refine = 1
    /\ final # FinalOf(task, draft)

\* the draft call returned the empty string or text holding no JSON
DraftUnusable == task = "matrix" /\ calls.draft = 1 /\ pc # "drafting"
                 /\ pc # "raised" /\ draftRaw.kind = "none"

Paths ==
    {<<"DRAFTED", "AUDITED", "ACCEPTED">>,
     <<"DRAFTED", "AUDITED", "REFINED", "ACCEPTED">>}

\* C9 as stated: an invocation makes at most three generate calls, moves
\* DRAFTED -> AUDITED -> ACCEPTED or DRAFTED -> AUDITED -> REFINED ->
\* ACCEPTED without returning to AUDITED, and defines its output once.
C9_AtMostThreeCalls ==
    /\ LlmCalls <= 3
    /\ \E path \in Paths : IsPrefix(trail, path)
    /\ finals <= 1
    /\ pc = "accepted" => finals = 1

\* C9 amended: extract_claims and design_study make at most three generate
\* calls, _write_special_issue at most four (it repeats an empty draft call
\* once); every invocation moves along DRAFTED -> AUDITED -> ACCEPTED or
\* DRAFTED -> AUDITED -> REFINED -> ACCEPTED with one audit and at most one
\* refine, and defines its output exactly once when it reaches ACCEPTED and
\* never otherwise.
C9_BoundedCalls ==
    /\ LlmCalls <= (IF task = "meta" THEN 4 ELSE 3)
    /\ calls.audit <= 1 /\ calls.refine <= 1
    /\ \E path \in Paths : IsPrefix(trail, path)
    /\ finals = (IF pc = "accepted" THEN 1 ELSE 0)
    /\ pc = "accepted" => trail \in Paths

\* C9 witness: _write_special_issue drew an empty first draft, a second
\* draft, a critique and a rewrite: four calls
C9_Witness ==
    /\ task = "meta" /\ pc = "accepted"
    /\ calls = [draft |-> 2, audit |-> 1, refine |-> 1]
    /\ trail = <<"DRAFTED", "AUDITED", "REFINED", "ACCEPTED">>

\* ------------------------------------------------------------ claims: the gate
\* the records of a list created at clock value t
At(mems, t) == SelectSeq(mems, LAMBDA m : m.creation_time = t)

\* two MemoryObjects carry the same text and the same times
SameText(a, b) ==
    /\ a.description = b.description /\ a.creation_time = b.creation_time
    /\ a.last_accessed = b.last_accessed

\* nothing of the discussion held at clock value t is in a stream, in the
\* cache, in agent_memories or in the discussions file
NothingStored(t) ==
    /\ At(streams.self, t) = <<>> /\ At(streams.other, t) = <<>>
    /\ \A a \in {"self", "other"} : \A i \in 1 .. Len(agentMemories[a]) :
         agentMemories[a][i].created_at # t
    /\ \A d \in redisStore : d.created_at # t
    /\ \A i \in 1 .. Len(discussionsFile) : discussionsFile[i].date # t

\* fact checks that ended with a status other than UNSUPPORTED
Kept == {i \in 1 .. Len(verdicts) : verdicts[i].status # StUnsupported}

\* C4: under a final verdict of UNSUPPORTED discuss_with adds nothing to
\* either stream and persists nothing (no agent_memories row, no cache
\* entry, no report, no entry in the discussions file); under any other
\* verdict it adds one record to each stream, the two carrying the same
\* discussion text (tagged for a hypothesis) and the same time. No stored
\* discussion belongs to an UNSUPPORTED verdict.
C4_UnsupportedDiscarded ==
    /\ \A i \in 1 .. Len(verdicts) :
         LET t == verdicts[i].time
         IN IF verdicts[i].status = StUnsupported
            THEN NothingStored(t)
            ELSE /\ Len(At(streams.self, t)) = 1
                 /\ Len(At(streams.other, t)) = 1
                 /\ SameText(At(streams.self, t)[1], At(streams.other, t)[1])
                 /\ \E d \in DiscussionResults :
                      At(streams.self, t)[1].description =
                          MemoryText(verdicts[i].status, SelfName, OtherName, d)
    /\ (gpc = "checked" /\ status = StUnsupported) => NothingStored(rounds)
    /\ Len(agentReports) <= Cardinality(Kept)
    /\ Len(discussionsFile) <= Cardinality(Kept)
    /\ \A i \in 1 .. Len(discussionsFile) :
         discussionsFile[i].fact_check_status # StUnsupported

\* C4 witness: a discussion was committed as a hypothesis with the database
\* working: both streams and both agents' rows hold the tagged text, and
\* the report and the file entry were written
C4_Witness ==
    /\ Len(verdicts) = 1 /\ verdicts[1].status = StHypothesis
    /\ Len(At(streams.self, 1)) = 1 /\ Len(At(streams.other, 1)) = 1
    /\ StartsWith(At(streams.self, 1)[1].description, TagHypothesis)
    /\ At(streams.self, 1)[1].description = At(streams.other, 1)[1].description
    /\ Len(agentMemories.self) = 1 /\ Len(agentMemories.other) = 1
    /\ Len(agentReports) = 1
    /\ Len(discussionsFile) = 1

\* C10: a status beginning with VERIFIED becomes UNSUPPORTED whenever the
\* evidence text is empty, shorter than 10 characters, or ends with the
\* label "quotes:"; a response "Status: [VERIFIED]" with an empty Evidence:
\* line yields UNSUPPORTED.
C10_LazyVerificationUnsupported ==
    gpc = "checked" =>
        /\ ( /\ StartsWith(StatusBeforeSafeguard(verification_response), StVerified)
             /\ \/ evidence_text = <<>>
                \/ Len(evidence_text) < 10
                \/ EndsWith(Strip(Lower(evidence_text)), KwQuotes) )
           => status = StUnsupported
        /\ verification_response = <<"S", "t", "a", "t", "u", "s", ":", " ", "[", "V", "E", "R", "I", "F", "I", "E", "D", "]", "\n", "E", "v", "i", "d", "e", "n", "c", "e", ":">>
           => status = StUnsupported

\* C10 witness: the fact check answered VERIFIED with the evidence
\* "Exact quotes:" (13 characters) and the status became UNSUPPORTED
C10_Witness ==
    /\ gpc = "checked"
    /\ verification_response = <<"S", "t", "a", "t", "u", "s", ":", " ", "[", "V", "E", "R", "I", "F", "I", "E", "D", "]", "\n", "E", "v", "i", "d", "e", "n", "c", "e", ":", " ", "E", "x", "a", "c", "t", " ", "q", "u", "o", "t", "e", "s", ":">>
    /\ evidence_text = <<"E", "x", "a", "c", "t", " ", "q", "u", "o", "t", "e", "s", ":">>
    /\ status = StUnsupported

\* ------------------------------------------------------------ claims: post-processing
\* the records the returned list was built from: the draft's on the accepted
\* path, the refine output's on the refined path
Extracted == IF Contains(critique, TxtPASS) THEN draft.data ELSE refined.data

\* C11: every record extract_claims returns whose title_claim_type is
\* "causal" and whose study_design_type is "observational" (compared in
\* lower case) has gap_severity High, whatever the model gave, after an
\* accepted draft and after a refine alike; the other fields are the
\* model's.
C11_CausalObservationalHigh ==
    (task = "matrix" /\ pc = "accepted") =>
        /\ Len(final.data) = Len(Extracted)
        /\ \A i \in 1 .. Len(Extracted) :
             ( /\ Lower(Extracted[i].title_claim_type) = WCausal
               /\ Lower(Extracted[i].study_design_type) = WObservational )
             => final.data[i] = [Extracted[i] EXCEPT !.gap_severity = WHigh]

\* C11 witness: the refine step returned a causal/observational record rated
\* Low and extract_claims returned it rated High
C11_Witness ==
    /\ task = "matrix" /\ pc = "accepted" /\ critique = TxtFail
    /\ refined = JsonList(<<EntryRct, EntryCausalObs>>)
    /\ refined.data[2].gap_severity = WLow
    /\ final.data[2].gap_severity = WHigh

\* ------------------------------------------------------------ claims: ranking
\* the importances of the stored records, in insertion order
Importances == [i \in 1 .. Len(memories) |-> memories[i].importance]

\* a retrieve_important(top_k) result with top_k within the stream size:
\* top_k stored records, none rated lower than one ranked after it or than
\* one left out
RankedByImportance ==
    (ret.op = "retrieve_important" /\ ret.arg <= Len(memories)) =>
        /\ Len(ret.value) = ret.arg
        /\ \A i \in 1 .. Len(ret.value) : ret.value[i] \in Range(memories)
        /\ \A i, j \in 1 .. Len(ret.value) :
             i < j => /\ ret.value[i].importance >= ret.value[j].importance
                      /\ ret.value[i].oid # ret.value[j].oid
        /\ \A m \in Range(memories) \ Range(ret.value) :
             \A i \in 1 .. Len(ret.value) : ret.value[i].importance >= m.importance

AddsDone == {w \in Workers : workers[w].op = "add_memory" /\ workers[w].pc = "done"}
\* workers whose add_memory call is under way
AddsRunning == {w \in Workers : workers[w].op = "add_memory" /\ workers[w].pc # "done"}
\* the first k records of the list
Prefix(k) == SubSeq(memories, 1, k)

\* C13: calls on one stream are serialized by the lock: at most one worker
\* is inside it; once the add_memory calls have all finished the list holds
\* one record per call, each call's record exactly once; every get_recent
\* result is the ranking of the list as it stood after some number of
\* whole appends.
C13_SerializedByLock ==
    /\ Cardinality({w \in Workers : workers[w].pc \in InsideLock}) <= 1
    /\ \A w \in Workers : workers[w].pc \in InsideLock => lock = w
    /\ AddsRunning = {} =>
         /\ Len(memories) = Cardinality(AddsDone)
         /\ \A w \in AddsDone :
              Cardinality({i \in 1 .. Len(memories) :
                             memories[i] = workers[w].made[1]}) = 1
    /\ \A w \in Workers :
         (workers[w].op = "get_recent" /\ workers[w].pc \in {"sorted", "done"}) =>
             \E k \in 0 .. Len(memories) :
                 workers[w].result = GetRecent(Prefix(k), RecentN)

\* C13 witness: two add_memory calls and one get_recent call have finished,
\* and get_recent returned the list as it stood between the two appends
C13_Witness ==
    /\ Cardinality(AddsDone) = 2 /\ AddsRunning = {}
    /\ Len(memories) = 2
    /\ \E w \in Workers :
         /\ workers[w].op = "get_recent" /\ workers[w].pc = "done"
         /\ workers[w].result = <<memories[1]>>

\* ------------------------------------------------------------ claims: lifetime
\* C14: the in-process list is append-only: every step of add_memory,
\* retrieve, retrieve_important, get_recent and load_from_db leaves the
\* records already stored in place and in order.
C14_AppendOnly == [][IsPrefix(memories, memories')]_vars

\* C14 witness: a loaded record is followed in the list by an added one and
\* get_recent has returned the two in the opposite order
C14_Witness ==
    /\ Len(memories) = 2
    /\ memories[1].oid = 101 /\ memories[2].oid = 1
    /\ ret.op = "get_recent"
    /\ ret.value = <<memories[2], memories[1]>>

\* ------------------------------------------------------------ claims: verdicts
\* the verdict values the gate is specified to produce
VerdictValues ==
    {StVerified, StVerifiedSynthesis, StHypothesis, StUnsupported, StUnknown}

\* C15: for every verification response the final status of the fact check
\* is one of VERIFIED, VERIFIED_SYNTHESIS, HYPOTHESIS, UNSUPPORTED, UNKNOWN.
C15_VerdictAmongFive ==
    /\ gpc = "checked" => status \in VerdictValues
    /\ \A i \in 1 .. Len(verdicts) : verdicts[i].status \in VerdictValues

\* ------------------------------------------------------------ claims: parsing
\* every modelled Status: line with the status it states: the text after
\* the colon, upper-cased, without brackets and periods
StatedStatus ==
    {<<<<"S", "t", "a", "t", "u", "s", ":", " ", "[", "V", "E", "R", "I", "F", "I", "E", "D", "]">>,
       <<"V", "E", "R", "I", "F", "I", "E", "D">>>>,
     <<<<"S", "t", "a", "t", "u", "s", ":", " ", "v", "e", "r", "i", "f", "i", "e", "d", "_", "s", "y", "n", "t", "h", "e", "s", "i", "s", ".">>,
       <<"V", "E", "R", "I", "F", "I", "E", "D", "_", "S", "Y", "N", "T", "H", "E", "S", "I", "S">>>>,
     <<<<"S", "t", "a", "t", "u", "s", ":", " ", "U", "N", "S", "U", "P", "P", "O", "R", "T", "E", "D">>,
       <<"U", "N", "S", "U", "P", "P", "O", "R", "T", "E", "D">>>>,
     <<<<"S", "t", "a", "t", "u", "s", ":", " ", "H", "Y", "P", "O", "T", "H", "E", "S", "I", "S">>,
       <<"H", "Y", "P", "O", "T", "H", "E", "S", "I", "S">>>>,
     <<<<"S", "t", "a", "t", "u", "s", ":", " ", "[", "V", "E", "R", "I", "F", "I", "E", "D", " ", "|", " ", "U", "N", "S", "U", "P", "P", "O", "R", "T", "E", "D", "]">>,
       <<"V", "E", "R", "I", "F", "I", "E", "D", " ", "|", " ", "U", "N", "S", "U", "P", "P", "O", "R", "T", "E", "D">>>>,
     <<<<"S", "t", "a", "t", "u", "s", ":", " ", "P", "a", "r", "t", "i", "a", "l", "l", "y", " ", "v", "e", "r", "i", "f", "i", "e", "d">>,
       <<"P", "A", "R", "T", "I", "A", "L", "L", "Y", " ", "V", "E", "R", "I", "F", "I", "E", "D">>>>}

\* every modelled Evidence: line with the content after its colon
StatedEvidence ==
    {<<<<"E", "v", "i", "d", "e", "n", "c", "e", ":">>,
       <<>>>>,
     <<<<"E", "v", "i", "d", "e", "n", "c", "e", ":", " ", "\"", "P", "M", "2", ".", "5", "\"">>,
       <<"\"", "P", "M", "2", ".", "5", "\"">>>>,
     <<<<"E", "v", "i", "d", "e", "n", "c", "e", ":", " ", "E", "x", "a", "c", "t", " ", "q", "u", "o", "t", "e", "s", ":">>,
       <<"E", "x", "a", "c", "t", " ", "q", "u", "o", "t", "e", "s", ":">>>>,
     <<<<"E", "v", "i", "d", "e", "n", "c", "e", ":", " ", "\"", "P", "M", "2", ".", "5", " ", "r", "a", "i", "s", "e", "d", " ", "a", "s", "t", "h", "m", "a", " ", "v", "i", "s", "i", "t", "s", "\"">>,
       <<"\"", "P", "M", "2", ".", "5", " ", "r", "a", "i", "s", "e", "d", " ", "a", "s", "t", "h", "m", "a", " ", "v", "i", "s", "i", "t", "s", "\"">>>>,
     <<<<"E", "v", "i", "d", "e", "n", "c", "e", ":", " ", "R", "e", "f", "l", "e", "c", "t", "i", "o", "n", ":", " ", "P", "M", "2", ".", "5", " ", "m", "a", "t", "t", "e", "r", "s">>,
       <<"R", "e", "f", "l", "e", "c", "t", "i", "o", "n", ":", " ", "P", "M", "2", ".", "5", " ", "m", "a", "t", "t", "e", "r", "s">>>>,
     <<<<"E", "v", "i", "d", "e", "n", "c", "e", ":", " ", "[">>,
       <<"[">>>>}

\* the list-style evidence of two lines, as collected
ListEvidence == <<"[", "\n", "-", " ", "\"", "V", "i", "s", "i", "t", "s", " ", "r", "o", "s", "e", " ", "1", "2", "%", "\"">>

\* evidence that quotes: a quotation mark in it, at least ten characters,
\* not citing the agents' own reflection or discussion
QuotedProof(e) ==
    /\ Contains(e, <<"\"">>)
    /\ Len(e) >= MinEvidenceLen
    /\ ~StartsWith(Lower(e), KwReflection)
    /\ ~StartsWith(Lower(e), KwDiscussion)
    /\ ~Contains(Lower(e), KwObservations)

\* the outcome of a fact check whose response states status and evidence
ParsedAs(stated, evidence) ==
    /\ ParseResponse(verification_response).status = stated
    /\ evidence_text = evidence
    /\ (stated = StVerified /\ QuotedProof(evidence)) => status = StVerified

ScannedStatus ==
    {<<<<"T", "h", "e", " ", "c", "l", "a", "i", "m", " ", "i", "s", " ", "U", "N", "S", "U", "P", "P", "O", "R", "T", "E", "D", ",", " ", "n", "o", "t", " ", "V", "E", "R", "I", "F", "I", "E", "D">>,
       StVerified>>,
     <<<<"A", " ", "H", "Y", "P", "O", "T", "H", "E", "S", "I", "S", " ", "a", "t", " ", "b", "e", "s", "t">>,
       StHypothesis>>,
     <<<<"N", "o", "t", " ", "a", " ", "H", "Y", "P", "O", "T", "H", "E", "S", "I", "S", ":", " ", "U", "N", "S", "U", "P", "P", "O", "R", "T", "E", "D">>,
       StUnsupported>>,
     <<<<"V", "E", "R", "I", "F", "I", "E", "D", "_", "S", "Y", "N", "T", "H", "E", "S", "I", "S", " ", "o", "f", " ", "b", "o", "t", "h", " ", "p", "a", "p", "e", "r", "s">>,
       StVerifiedSynthesis>>,
     <<<<"N", "o", " ", "v", "e", "r", "d", "i", "c", "t">>,
       StUnknown>>,
     <<<<>>,
       StUnknown>>}

\* the outcome of a fact check whose response has no Status: line: the
\* scanned status, which only the safeguard against a VERIFIED status
\* without proof may still turn into UNSUPPORTED
ScannedAs(scanned) ==
    /\ ParseResponse(verification_response).status = StUnknown
    /\ StatusBeforeSafeguard(verification_response) = scanned
    /\ status \in {scanned, StUnsupported}
    /\ ~StartsWith(scanned, StVerified) => status = scanned

\* C20: when no line of the response begins with Status:, the status is the
\* first of VERIFIED_SYNTHESIS, VERIFIED, UNSUPPORTED, HYPOTHESIS occurring
\* anywhere in the text, and UNKNOWN when none occurs.
C20_KeywordScanPriority ==
    gpc = "checked" =>
        \A p \in ScannedStatus :
            /\ verification_response = p[1] => ScannedAs(p[2])
            /\ \A e \in EvidenceLines :
                 verification_response = Lines(<<p[1], e>>) => ScannedAs(p[2])

\* C20 witness: a response naming both UNSUPPORTED and VERIFIED without a
\* Status: line was scanned, VERIFIED won and, there being no evidence, the
\* safeguard made it UNSUPPORTED
C20_Witness ==
    /\ gpc = "checked"
    /\ \E p \in ScannedStatus :
         /\ p[2] = StVerified
         /\ Contains(p[1], StUnsupported)
         /\ verification_response = p[1]
    /\ evidence_text = NoText
    /\ status = StUnsupported

\* ------------------------------------------------------------ claims: LLM.generate
\* C16: generate never raises to its caller: it returns the model's text,
\* or the empty text when the call fails, also when the cache errors during
\* the lookup or the store.
C16_GenerateNeverRaises ==
    /\ generated.outcome # "raise"
    /\ generated.outcome = "empty" => generated.value = <<>>

\* C17: in every sequence of calls, a generate call with a non-zero
\* temperature does not return a cached response and leaves the cache as
\* it was.
C17_CacheOnlyAtTemperatureZero ==
    [][(generated'.seq # generated.seq /\ generated'.temperature # 0) =>
          /\ generated'.outcome # "cached"
          /\ llmCache' = llmCache]_vars

\* C17 witness: a call at temperature 0.7 returned a fresh response while
\* the cache held another response under the call's key
C17_Witness ==
    /\ generated.temperature = 7
    /\ generated.outcome = "fresh"
    /\ llmCache[generated.key] # <<>>
    /\ llmCache[generated.key] # generated.value

\* ------------------------------------------------------------ claims: storage names
\* C18: for any two distinct agent names the index names differ, the key
\* prefixes differ, and no key written by the one agent's add_memory lies
\* under the other's index prefix.
C18_NoCrossAgentCollision ==
    \A a \in constructed, b \in constructed :
        a # b =>
            /\ IndexName(SafeName(a)) # IndexName(SafeName(b))
            /\ KeyPrefix(SafeName(a)) # KeyPrefix(SafeName(b))
            /\ \A h \in hashKeys :
                 h.agent = a => ~StartsWith(h.key, KeyPrefix(SafeName(b)))

\* ------------------------------------------------------------ claims: malformed verdicts
\* the status of the running fact check after parsing and keyword fallback
ScannedNow ==
    KeywordFallback(ParseResponse(verification_response).status,
                    verification_response)

\* the last record of an agent's stream
LastOf(agent) == streams[agent][Len(streams[agent])]

\* C21: when the status after parsing and keyword fallback contains '|' the
\* verdict is HYPOTHESIS, and the step that ends the call commits the
\* conclusion to both streams tagged as a hypothesis.
C21_PipeBecomesHypothesis ==
    [][(gpc = "checked" /\ Contains(ScannedNow, <<"|">>)) =>
          /\ status = StHypothesis
          /\ verdicts' = Append(verdicts, [time |-> rounds, status |-> StHypothesis])
          /\ \A a \in {"self", "other"} :
               /\ Len(streams'[a]) = Len(streams[a]) + 1
               /\ StartsWith(streams'[a][Len(streams'[a])].description,
                             TagHypothesis)]_vars

\* C21 witness: the checker echoed the labels VERIFIED | UNSUPPORTED with a
\* quotation as evidence, and the verdict is HYPOTHESIS
C21_Witness ==
    /\ gpc = "checked"
    /\ Contains(ScannedNow, <<"|">>)
    /\ StartsWith(ScannedNow, StVerified)
    /\ Len(evidence_text) >= MinEvidenceLen
    /\ status = StHypothesis

\* ------------------------------------------------------------ claims: the hypothesis tag
\* C22: the text of a committed discussion record begins with the tag
\* "[HYPOTHESIS] " if and only if the final verdict is HYPOTHESIS; a record
\* committed under VERIFIED or VERIFIED_SYNTHESIS does not carry it.
C22_TaggedIffHypothesis ==
    [][\A a \in {"self", "other"} :
          Len(streams'[a]) > Len(streams[a]) =>
              LET text == streams'[a][Len(streams'[a])].description
              IN /\ StartsWith(text, TagHypothesis) <=> status = StHypothesis
                 /\ status \in {StVerified, StVerifiedSynthesis}
                      => ~StartsWith(text, TagHypothesis)]_vars

\* ------------------------------------------------------------ claims: self-referential evidence
\* evidence that, compared case-insensitively, starts with "reflection:" or
\* "discussion:" or contains "based on the provided observations"
SelfReferential(e) ==
    \/ StartsWith(Lower(e), KwReflection)
    \/ StartsWith(Lower(e), KwDiscussion)
    \/ Contains(Lower(e), KwObservations)

\* C23: a status beginning with VERIFIED becomes UNSUPPORTED whenever the
\* evidence is self-referential.
C23_SelfReferentialUnsupported ==
    (/\ gpc = "checked"
     /\ StartsWith(StatusBeforeSafeguard(verification_response), StVerified)
     /\ SelfReferential(evidence_text)) => status = StUnsupported

\* C23 witness: VERIFIED_SYNTHESIS was claimed on evidence of more than ten
\* characters that cites the provided observations, and the verdict is
\* UNSUPPORTED
C23_Witness ==
    /\ gpc = "checked"
    /\ StatusBeforeSafeguard(verification_response) = StVerifiedSynthesis
    /\ Len(evidence_text) >= MinEvidenceLen
    /\ ~StartsWith(Lower(evidence_text), KwReflection)
    /\ ~StartsWith(Lower(evidence_text), KwDiscussion)
    /\ Contains(Lower(evidence_text), KwObservations)
    /\ status = StUnsupported

\* ------------------------------------------------------------ claims: index creation
\* builder b has taken the step and ran its check against an existing index
RanOnExisting(b) == builders'[b] # builders[b] /\ builders'[b].existed

\* C24 as stated: run when the index already exists, the routine does not
\* raise, issues no create and leaves the index and the keys stored under
\* it unchanged, however often it is run.
C24_ExistingIndexUntouched ==
    [][\A b \in Builders :
          RanOnExisting(b) =>
              /\ builders'[b].outcome # "raised"
              /\ ~builders'[b].issued /\ createCalls' = createCalls
              /\ indexes' = indexes /\ hashKeys' = hashKeys]_vars

\* C24 amended: run when the index already exists, the routine does not
\* raise and leaves the index and the keys stored under it unchanged,
\* however often it is run; it issues no create when its existence check
\* finds the index.
C24_ExistingIndexKept ==
    [][\A b \in Builders :
          RanOnExisting(b) =>
              /\ builders'[b].outcome # "raised"
              /\ builders'[b].saw = "found" =>
                    ~builders'[b].issued /\ createCalls' = createCalls
              /\ indexes' = indexes /\ hashKeys' = hashKeys]_vars

\* C24 witness: the routine ran twice against the existing index with keys
\* stored under it, found it both times and issued no create
C24_Witness ==
    /\ \A b \in Builders :
         /\ builders[b].pc = "done" /\ builders[b].existed
         /\ builders[b].saw = "found" /\ ~builders[b].issued
    /\ createCalls = 0
    /\ hashKeys # {}
    /\ Cardinality(indexes) = 1

\* the indexes carrying the name derived from an agent name
IndexesOf(name) == {ix \in indexes : ix.index_name = IndexName(SafeName(name))}

\* two constructions for one agent that both saw the index absent and ended
Raced(a, b) ==
    /\ a # b /\ builders[a].name = builders[b].name
    /\ builders[a].saw = "absent" /\ builders[b].saw = "absent"
    /\ builders[a].pc \in {"done", "failed"} /\ builders[b].pc \in {"done", "failed"}

\* C25 as stated: when two constructions for one agent both see the index
\* absent, both complete without raising and exactly one index exists
\* afterwards; no construction fails whatever the check and the create do.
C25_RaceLeavesOneIndex ==
    /\ \A b \in Builders : builders[b].outcome # "raised" /\ builders[b].pc # "failed"
    /\ \A a \in Builders, b \in Builders :
         Raced(a, b) => Cardinality(IndexesOf(builders[a].name)) = 1

\* C25 amended: when two constructions for one agent both see the index
\* absent, both complete without raising and at most one index exists
\* afterwards, exactly one when a create call succeeded; no construction
\* fails whatever the check and the create do.
C25_RaceLeavesAtMostOneIndex ==
    /\ \A b \in Builders : builders[b].outcome # "raised" /\ builders[b].pc # "failed"
    /\ \A a \in Builders, b \in Builders :
         Raced(a, b) =>
            /\ Cardinality(IndexesOf(builders[a].name)) <= 1
            /\ (builders[a].outcome = "created" \/ builders[b].outcome = "created")
                 => Cardinality(IndexesOf(builders[a].name)) = 1

\* C25 witness: two constructions for one agent both saw the index absent,
\* the create of one went through, the other's was refused and caught
C25_Witness ==
    \E a \in Builders, b \in Builders :
        /\ Raced(a, b)
        /\ builders[a].outcome = "created" /\ builders[b].outcome = "caught"
        /\ builders[a].pc = "done" /\ builders[b].pc = "done"
        /\ Cardinality(IndexesOf(builders[a].name)) = 1

\* ------------------------------------------------------------ claims: restart
\* the rows the records of a list would be saved as
RowsOf(mems) == [i \in 1 .. Len(mems) |-> DbRow(mems[i])]

\* the step is the construction of a stream by a new process
Constructed == ret'.op = "__init__"

\* the step is a read that directly follows a construction over a reachable
\* store and asks for at least as many records as are persisted
ReadAfterLoad ==
    /\ ret.op = "__init__" /\ ret.fault = "none"
    /\ ret'.op \in {"get_recent", "retrieve_important"}
    /\ ret'.arg >= Len(dbRows)

\* C26: constructing a MemoryStream over a reachable store puts every
\* persisted row, and nothing else, in the in-process list, so get_recent
\* and retrieve_important called next return the records add_memory
\* persisted before the restart; over an unreachable store (demo mode or a
\* failing query) construction completes with an empty list
C26_PersistedRecordsReloaded ==
    [][/\ Constructed =>
            /\ ~ret'.raised
            /\ ret'.fault = "none" => RowsOf(memories') = dbRows
            /\ ret'.fault # "none" => memories' = <<>>
       /\ ReadAfterLoad =>
            \A i \in 1 .. Len(dbRows) :
                \E m \in Range(ret'.value) : DbRow(m) = dbRows[i]]_vars

\* two records were persisted, the process restarted over the reachable
\* store and get_recent returned both
C26_Witness ==
    /\ Len(dbRows) = MaxMem /\ db = "pool"
    /\ ret.op = "get_recent" /\ ret.arg = MaxMem
    /\ RowsOf(memories) = dbRows
    /\ \A m \in Range(memories) : m.oid > 100
    /\ Len(ret.value) = MaxMem

\* ------------------------------------------------------------ claims: importance
\* C27: every record of the list has an importance between 1 and 10
\* inclusive, whatever text the model returned for the rating
C27_ImportanceInRange ==
    \A m \in Range(memories) : m.importance >= 1 /\ m.importance <= 10

\* the step is an add_memory call whose rating call gave the outcome r
AddRated(r) ==
    \E t \in Times, p \in BOOLEAN :
        AddMemory(DescriptionOf(nextOid), t, r, TRUE, TRUE, p)

\* C28: when the rating call raises, returns the empty text or returns a
\* text that is no number, add_memory returns normally and the record it
\* appends has importance 5.0
C28_UnratedDefaultsToFive ==
    [][\A r \in UnratedOutcomes :
         AddRated(r) =>
            /\ ~ret'.raised
            /\ Len(memories') = Len(memories) + 1
            /\ memories'[Len(memories')].importance = 5]_vars

\* each of the three failures has happened to an add_memory call: the
\* records rated by default are there and the calls returned
C28_Witness ==
    /\ ret.op = "add_memory" /\ ~ret.raised
    /\ addFaults >= MaxMem
    /\ Len(memories) = MaxMem
    /\ \A m \in Range(memories) : m.importance = 5 /\ m.oid < 100

\* the records of a returned value
Returned(r) == Range(r.value)

\* C29: no operation changes the importance of an existing record: a record
\* of the list keeps, across every step, the importance it was created or
\* loaded with, and the records a read returns carry that same value
C29_ImportanceImmutable ==
    [][/\ \A i \in 1 .. Len(memories) :
            /\ i <= Len(memories')
            /\ memories'[i].oid = memories[i].oid
            /\ memories'[i].importance = memories[i].importance
       /\ \A v \in Returned(ret') : \A m \in Range(memories) :
            v.oid = m.oid => v.importance = m.importance]_vars

\* a loaded record rated 5 and an added record rated 8 are in the list, a
\* second record was added after them and retrieve_important returned them
C29_Witness ==
    /\ Len(memories) = MaxListed
    /\ memories[1].oid > 100 /\ memories[1].importance = 5
    /\ memories[2].oid < 100 /\ memories[2].importance = 8
    /\ memories[3].importance = 5
    /\ ret.op = "retrieve_important" /\ Len(ret.value) >= 2

\* ------------------------------------------------------------ claims: extraction
\* out is what the extraction routine owes for the answer raw: the list
\* found in it, else its single object as a one-element list, else the
\* empty list, in every case a bare JSON list
ExtractedFrom(raw, out) ==
    /\ out.kind = "list" /\ ~out.prose
    /\ raw.kind = "list" => out.data = raw.data
    /\ raw.kind = "object" => out.data = raw.data /\ Len(out.data) = 1
    /\ raw.kind = "none" => out.data = <<>>

\* every value extract_claims has extracted or returned so far is a list
ExtractionIsList ==
    /\ pc \in {"auditing", "audited", "accepted"} => ExtractedFrom(draftRaw, draft)
    /\ pc = "accepted" => final.kind = "list" /\ ~final.prose
    /\ (pc = "accepted" /\ calls.refine = 1) => refined.kind = "list" /\ ~refined.prose

\* C30: the extraction routine never raises and returns a JSON list for any
\* answer (the list found, else the single object promoted to a one-element
\* list, else the empty list), and so every extract_claims invocation
\* returns a parseable JSON list instead of raising
C30_ExtractClaimsAlwaysList ==
    task = "matrix" => ExtractionIsList /\ pc # "raised"

\* ------------------------------------------------------------ claims: the editorial
\* a _write_special_issue invocation that went past its review
Reviewed == task = "meta" /\ calls.audit = 1 /\ pc \in Terminal

Listed(v, mems) == {i \in 1 .. Len(mems) : mems[i].oid = v.oid}

\* m and n agree on every field but last_accessed
SameButAccess(m, n) == [m EXCEPT !.last_accessed = 0] = [n EXCEPT !.last_accessed = 0]

\* C32: a record that is part of the result of retrieve, retrieve_important
\* or get_recent has its last_accessed updated by that call (to the time
\* retrieve was given; get_recent and retrieve_important take no time, the
\* value moves) and keeps every other field
C32_ReadsTouchLastAccessed ==
    [][/\ ret'.op = "retrieve" =>
            \A v \in Range(ret'.value) :
                /\ v.last_accessed = ret'.time
                /\ \A i \in Listed(v, memories) :
                     /\ memories'[i].last_accessed = ret'.time
                     /\ SameButAccess(memories'[i], memories[i])
       /\ (ret'.op \in {"get_recent", "retrieve_important"} /\ ret' # ret) =>
            \A v \in Range(ret'.value) : \A i \in Listed(v, memories) :
                /\ memories'[i].last_accessed # memories[i].last_accessed
                /\ SameButAccess(memories'[i], memories[i])]_vars

\* ------------------------------------------------------------ claims: precedence
\* the tests of the four rules on the extracted, lower-cased fields
BehaviouralSelfReported(e) ==
    /\ Contains(Lower(e.intervention_type), WBehavioral)
    /\ Contains(Lower(e.data_source_type), WSelfReported)
AssociativeObservational(e) ==
    /\ Contains(Lower(e.title_claim_type), WAssociat)
    /\ Contains(Lower(e.study_design_type), WObservational)
CausalObservational(e) ==
    /\ Contains(Lower(e.title_claim_type), WCausal)
    /\ Contains(Lower(e.study_design_type), WObservational)
RandomizedDesign(e) ==
    \/ Contains(Lower(e.study_design_type), WRct)
    \/ Contains(Lower(e.study_design_type), WRandom)

\* the severity the precedence gives the record e; e's own when no rule
\* matches
Precedence(e) ==
    IF BehaviouralSelfReported(e) THEN WHigh
    ELSE IF AssociativeObservational(e) THEN WLow
    ELSE IF CausalObservational(e) THEN WHigh
    ELSE IF RandomizedDesign(e) THEN WLow
    ELSE e.gap_severity

\* an extract_claims invocation has returned its list
ClaimsReturned == task = "matrix" /\ pc = "accepted"

\* C33 as stated: every returned record is the extracted record with the
\* severity the precedence gives (behavioural and self-reported: High, even
\* for an RCT; else associative and observational: Low; else causal and
\* observational: High; else RCT or randomized: Low), and when no rule
\* matches the record is returned as extracted, in every field
C33_PrecedenceOnly ==
    ClaimsReturned =>
        /\ Len(final.data) = Len(Extracted)
        /\ \A i \in 1 .. Len(Extracted) :
             final.data[i] = [Extracted[i] EXCEPT !.gap_severity = Precedence(Extracted[i])]

\* C33: every returned record has the severity the precedence gives and,
\* but for an epistemic_check that was no object and is returned as an
\* empty object, every other field as extracted
C33_PrecedenceAndEmptyCheck ==
    ClaimsReturned =>
        /\ Len(final.data) = Len(Extracted)
        /\ \A i \in 1 .. Len(Extracted) :
             final.data[i] = [Extracted[i] EXCEPT !.gap_severity = Precedence(Extracted[i]),
                                                  !.epistemic_check = "object"]

\* the returned list holds a behavioural, self-reported RCT raised to High,
\* an associative observational record lowered to Low, a record no rule
\* matches and a record whose epistemic_check was a text
C33_Witness ==
    /\ ClaimsReturned /\ Contains(critique, TxtPASS)
    /\ draft.data = <<EntryBehavRct, EntryAssocObs, EntryNoRule, EntryNoCheck>>
    /\ final.data[1] = [EntryBehavRct EXCEPT !.gap_severity = WHigh]
    /\ final.data[2] = [EntryAssocObs EXCEPT !.gap_severity = WLow]
    /\ final.data[3] = EntryNoRule
    /\ final.data[4].epistemic_check = "object"

\* ------------------------------------------------------------ claims: tiers
\* the records of the list appear in the outer tiers as these documents and
\* rows
ListedDocs == {RedisDoc(m) : m \in Range(memories)}
ListedRows == {DbRow(m) : m \in Range(memories)}

\* C34: at every point between the steps of concurrent add_memory calls,
\* every document written to the vector cache and every row written to the
\* durable store belongs to a record that is already in the in-process
\* list, whether the writes work, fail or are never reached
C34_OuterTiersWithinList ==
    /\ redisStore \subseteq ListedDocs
    /\ Range(dbRows) \subseteq ListedRows

\* one call stopped between its cache write and its durable insert, another
\* finished with its cache write failed: the list holds both records, the
\* cache one, the durable store the other
C34_Witness ==
    /\ \E w \in Workers : workers[w].op = "add_memory" /\ workers[w].pc = "persist"
                          /\ RedisDoc(workers[w].made[1]) \in redisStore
                          /\ DbRow(workers[w].made[1]) \notin Range(dbRows)
    /\ \E w \in Workers : workers[w].op = "add_memory" /\ workers[w].pc = "done"
                          /\ RedisDoc(workers[w].made[1]) \notin redisStore
                          /\ DbRow(workers[w].made[1]) \in Range(dbRows)
    /\ Len(memories) = 2

\* ------------------------------------------------------------ claims: retrieve
\* C35: a retrieve call with top_k >= 1 on a non-empty list returns at least
\* one record, whether the vector cache is absent, failing, or reachable but
\* without a document of this agent
C35_RetrieveNeverEmpty ==
    [][(ret'.op = "retrieve" /\ Len(memories) >= 1 /\ ret'.arg >= 1) =>
          /\ ~ret'.raised
          /\ Len(ret'.value) >= 1]_vars

\* ------------------------------------------------------------ claims: cache keys
\* the step is a temperature-zero call that follows a temperature-zero call
\* made for another (system instruction, prompt, model) triple
OtherTripleFollows ==
    /\ generated.seq >= 1 /\ generated'.seq = generated.seq + 1
    /\ generated.temperature = 0 /\ generated'.temperature = 0
    /\ generated'.call # generated.call

\* C36: two temperature-zero calls that differ in system instruction,
\* prompt or model never share a cache entry, and the later one never
\* returns the response cached by the earlier
C36_NoSharedCacheEntry ==
    [][OtherTripleFollows =>
          /\ generated'.key # generated.key
          /\ ~(generated.outcome = "fresh" /\ generated'.outcome = "cached"
               /\ generated'.value = generated.value)]_vars

\* ------------------------------------------------------------ claims: cached failures
\* the step is a temperature-zero call that directly follows an identical
\* call which returned the empty string
RepeatsEmptyCall ==
    /\ generated.seq >= 1 /\ generated'.seq = generated.seq + 1
    /\ generated.temperature = 0 /\ generated'.temperature = 0
    /\ generated'.call = generated.call
    /\ generated.outcome = "empty"

\* C37: a call that returned the empty string stored nothing, and the
\* identical temperature-zero call made next does not return a cached
\* response: it is answered by a new request to the model
C37_FailuresNotCached ==
    [][/\ (generated'.seq # generated.seq /\ generated'.outcome = "empty") =>
            llmCache' = llmCache
       /\ RepeatsEmptyCall => generated'.outcome # "cached"]_vars

\* a temperature-zero call on an LLM with an active cache returned the
\* empty string: its key has no entry, while an earlier call's response is
\* cached under another key
C37_Witness ==
    /\ llmRedis /\ generated.seq >= 2
    /\ generated.temperature = 0 /\ generated.outcome = "empty"
    /\ llmCache[generated.key] = <<>>
    /\ \E k \in CacheKeys : llmCache[k] # <<>>


\* ------------------------------------------------------------ claim C38
\* the worker threads between the entry and the exit of the with statement
InsideMatrixLock == {u \in Updaters : updaters[u].pc \in {"locked", "read", "written"}}

\* C38: the read-modify-write of living_knowledge_graph.json is mutually
\* exclusive among the worker threads: at most one thread is inside the
\* with statement, every entry a thread appended is still in the file, and
\* no two entries of the file have titles that are equal ignoring case and
\* surrounding whitespace
C38_GraphUpdateExclusive ==
    /\ Cardinality(InsideMatrixLock) <= 1
    /\ \A u \in Updaters : \A i \in 1 .. Len(updaters[u].appended) :
          \E j \in 1 .. Len(kg_file) : kg_file[j] = updaters[u].appended[i]
    /\ \A i, j \in 1 .. Len(kg_file) :
          CleanTitle(kg_file[i].study_title) = CleanTitle(kg_file[j].study_title)
              => i = j

\* one thread has appended an entry and waits for the lock with its next
\* paper, while another has written the file back without its two claims,
\* whose title differs from the entry's only in case and surrounding
\* whitespace
C38_Witness ==
    /\ Len(kg_file) = 1
    /\ \E u, v \in Updaters :
          /\ u # v
          /\ updaters[u].pc = "written" /\ updaters[u].appended = <<>>
          /\ Len(updaters[u].claims_data) = 2
          /\ updaters[u].title # <<>>
          /\ updaters[u].title # kg_file[1].study_title
          /\ CleanTitle(updaters[u].title) = CleanTitle(kg_file[1].study_title)
          /\ updaters[v].pc = "waiting" /\ updaters[v].appended # <<>>

\* ------------------------------------------------------------ claim C39
\* C39: the parse_response of the tests and the Status/Evidence loop of
\* discuss_with compute the same pair of status and evidence for every
\* response: the evidence the program holds after the loop is the copy's,
\* the program's final status is what the fallback, the pipe default and
\* the safeguard make of the copy's status, and what the tests assert of
\* the copy on their two responses holds of the program's parse
C39_TestCopyAgrees ==
    gpc = "checked" =>
        LET copy == parse_response(verification_response)
            ran == ParseResponse(verification_response)
        IN /\ copy = <<ran.status, ran.evidence_text>>
           /\ evidence_text = copy[2]
           /\ status = Safeguard(PipeDefault(KeywordFallback(copy[1],
                                                             verification_response)),
                                 copy[2])
           /\ verification_response = TestMultilineResponse =>
                 /\ ran.status = StVerified
                 /\ Len(evidence_text) > 10
                 /\ Contains(evidence_text, TxtQuote1)
                 /\ Contains(evidence_text, TxtQuote2)
           /\ verification_response = TestSinglelineResponse =>
                 /\ ran.status = StVerified
                 /\ Contains(evidence_text, TxtSingleQuote)

\* the program has parsed the response of test_multiline_evidence: the
\* status is VERIFIED and the evidence holds both quotations
C39_Witness ==
    /\ gpc = "checked"
    /\ verification_response = TestMultilineResponse
    /\ status = StVerified
    /\ Contains(evidence_text, TxtQuote1) /\ Contains(evidence_text, TxtQuote2)
    /\ parse_response(verification_response) = <<StVerified, evidence_text>>
====
